---------------------------- MODULE Spec2Model ----------------------------
(***************************************************************************)
(* A model of the RRG calculation engine (src/src/rrg_calculator.py):      *)
(* the series normalizer process_series, the transforms calculate_rs and   *)
(* calculate_momentum, and the classifier get_quadrant.                    *)
(*                                                                         *)
(* Floating point values are modelled as exact rationals <<n, d>> with     *)
(* d > 0 in lowest terms, together with the three non-finite values        *)
(* NaN = <<0, 0>>, +inf = <<1, 0>> and -inf = <<-1, 0>>.  Rounding is not  *)
(* modelled.  A series is a sequence; a price series for process_series    *)
(* is a sequence of records [date, val] (the index label and the value).   *)
(***************************************************************************)
EXTENDS Integers, Sequences, FiniteSets, TLC

VARIABLES
    calc,            \* the RRGCalculator object's fields
    ser,             \* argument of process_series
    processed,       \* value returned by process_series
    stock_df,        \* argument of calculate_rs: instrument closes
    benchmark_df,    \* argument of calculate_rs: benchmark closes
    rs_ratio,        \* value returned by calculate_rs / argument of calculate_momentum
    rs_momentum,     \* value returned by calculate_momentum
    rs_value,        \* argument of get_quadrant
    momentum_value,  \* argument of get_quadrant
    quadrant,        \* value returned by get_quadrant
    pc,              \* the last call made on the calculator
    session_state,   \* generate_chart: st.session_state
    benchmark_closes,\* generate_chart: benchmark_df['Close']
    all_selected,    \* generate_chart: the selected instruments
    item_idx,        \* generate_chart: position of the loop over all_selected
    item_df,         \* generate_chart: what get_token / get_stock_data gave, per symbol
    aligned,         \* generate_chart: the arguments given to calculate_rs, per symbol
    items_data,      \* generate_chart: items_data
    calls,           \* the number of earlier calls made on the calculator
    loader,          \* the AngelOneLoader object's fields
    token,           \* AngelOneLoader.get: the token argument
    api_response,    \* AngelOneLoader.get: what smartApi.getCandleData gave
    get_result,      \* AngelOneLoader.get: the value returned
    today,           \* AngelOneLoader.get: the day of the call
    cache,           \* _scrip_master_cache of each of the two modules
    thread,          \* fetch_scrip_master: where each thread is in it
    events,          \* the catalog requests issued and the cache clears, in order
    search_call,     \* search_indices / search_stocks / search_etfs: the arguments
    search_results,  \* the list the search returned
    token_call,      \* get_token_from_symbol: the arguments
    token_result,    \* get_token_from_symbol: the value returned
    ui,              \* st.session_state as main() and generate_chart use it
    loaders,         \* the AngelOneLoader objects constructed so far
    run,             \* what the last run of main() did
    init_call,       \* initialize_api_loader: what each construction attempt meets
    init_result,     \* initialize_api_loader: the value returned
    gen_env,         \* generate_chart: what the call meets
    gen_result,      \* generate_chart: the triple returned
    fig,             \* create_rrg_chart: the traces drawn
    data_rows,       \* main: the rows of the current-values table
    tabs             \* st.session_state: the active tab and the selection lists

chartVars == <<session_state, benchmark_closes, all_selected, item_idx, item_df,
               aligned, items_data>>

\* the state outside the calculator
loaderVars == <<loader, token, api_response, get_result, today>>

catalogVars == <<cache, thread, events>>

searchVars == <<search_call, search_results>>

tokenVars == <<token_call, token_result>>

\* the state of the application around the calculator, loader and catalog
mainVars == <<ui, loaders, run>>

initVars == <<init_call, init_result>>

genVars == <<gen_env, gen_result>>
plotVars == <<fig, data_rows>>
selVars == <<tabs>>

appVars == <<tokenVars, mainVars, initVars, genVars, plotVars, selVars>>

restVars == <<calls, chartVars, loaderVars, catalogVars, searchVars, appVars>>

vars == <<calc, ser, processed, stock_df, benchmark_df, rs_ratio, rs_momentum,
          rs_value, momentum_value, quadrant, pc, restVars>>

normVars == <<ser, processed>>
rsVars   == <<stock_df, benchmark_df>>
momVars  == <<rs_ratio, rs_momentum>>
quadVars == <<rs_value, momentum_value, quadrant>>

-----------------------------------------------------------------------------
(* Bounds of the model *)

MaxLen == 3          \* longest series given to process_series
MaxDate == 3         \* dates are 1..MaxDate
MaxPriceLen == 4     \* longest free price series given to calculate_rs
MaxConstLen == 8     \* longest constant price series
MaxRatioLen == 4     \* longest free ratio series given to calculate_momentum
MaxSpan == 3         \* m ranges over 2..MaxSpan
MaxShift == 2        \* k ranges over 1..MaxShift
MaxHistory == 36    \* dates of the price history given to generate_chart
MaxLead == 2        \* benchmark dates before the first date of an instrument
MaxHole == 3        \* the date the benchmark history may lack
MaxArgLen == 3      \* prices in a series given to a calculator that is used again
MaxCalls == 2       \* earlier calls made on one calculator
MaxCandles == 3     \* candles in a response of the price API
MaxPeriod == 2      \* the period of a loader: rows it returns at most
MaxEvents == 3      \* catalog requests and cache clears in one process

-----------------------------------------------------------------------------
(* Floating point values *)

NaN    == <<0, 0>>
PosInf == <<1, 0>>
NegInf == <<-1, 0>>

Abs(i) == IF i < 0 THEN -i ELSE i
Sgn(i) == IF i < 0 THEN -1 ELSE IF i > 0 THEN 1 ELSE 0

RECURSIVE GCD(_, _)
GCD(a, b) == IF b = 0 THEN a ELSE GCD(b, a % b)

\* the rational n/d (d # 0) in lowest terms with a positive denominator
Rat(n, d) ==
    LET g == GCD(Abs(n), Abs(d))
    IN  <<Sgn(d) * (n \div g), Abs(d) \div g>>

F(i) == <<i, 1>>

IsNaN(x)    == x = NaN
IsFinite(x) == x[2] > 0
IsInf(x)    == x[2] = 0 /\ x[1] # 0
IsZero(x)   == x = F(0)
InfOf(s)    == IF s > 0 THEN PosInf ELSE IF s < 0 THEN NegInf ELSE NaN

FAdd(x, y) ==
    IF IsNaN(x) \/ IsNaN(y) THEN NaN
    ELSE IF IsInf(x) /\ IsInf(y) THEN (IF x = y THEN x ELSE NaN)
    ELSE IF IsInf(x) THEN x
    ELSE IF IsInf(y) THEN y
    ELSE Rat(x[1] * y[2] + y[1] * x[2], x[2] * y[2])

FNeg(x) == <<-x[1], x[2]>>

FSub(x, y) == FAdd(x, FNeg(y))

FMul(x, y) ==
    IF IsNaN(x) \/ IsNaN(y) THEN NaN
    ELSE IF IsInf(x) \/ IsInf(y) THEN InfOf(Sgn(x[1]) * Sgn(y[1]))
    ELSE Rat(x[1] * y[1], x[2] * y[2])

\* IEEE division: x/0 is an infinity (0/0 is NaN), nothing raises
FDiv(x, y) ==
    IF IsNaN(x) \/ IsNaN(y) THEN NaN
    ELSE IF IsInf(y) THEN (IF IsInf(x) THEN NaN ELSE F(0))
    ELSE IF IsInf(x) THEN InfOf(Sgn(x[1]) * (IF y[1] < 0 THEN -1 ELSE 1))
    ELSE IF IsZero(y) THEN InfOf(Sgn(x[1]))
    ELSE Rat(x[1] * y[2], x[2] * y[1])

\* x > y and x <= y on floats: every comparison with NaN is false
FGt(x, y) ==
    /\ ~IsNaN(x) /\ ~IsNaN(y)
    /\ IF IsInf(x) \/ IsInf(y)
         THEN (IF IsInf(x) /\ IsInf(y) THEN x[1] > y[1]
               ELSE IF IsInf(x) THEN x[1] > 0 ELSE y[1] < 0)
         ELSE x[1] * y[2] > y[1] * x[2]

FLe(x, y) == ~IsNaN(x) /\ ~IsNaN(y) /\ ~FGt(x, y)

-----------------------------------------------------------------------------
(* process_series *)

Dates      == 1..MaxDate
SeriesVals == {1, 2}
Entries    == [date : Dates, val : SeriesVals]

\* Index.has_duplicates
has_duplicates(s) == \E i, j \in 1..Len(s) : i < j /\ s[i].date = s[j].date

\* keep='last' in place of the default
duplicated_last(s) ==
    [i \in 1..Len(s) |-> \E j \in (i + 1)..Len(s) : s[j].date = s[i].date]

\* Index.duplicated() with the default keep='first': marks every entry whose
\* label occurred at an earlier position
duplicated(s) == [i \in 1..Len(s) |-> \E j \in 1..(i - 1) : s[j].date = s[i].date]

\* ser.loc[mask]: the entries whose mask is TRUE, in their order
RECURSIVE loc(_, _)
loc(s, mask) ==
    IF Len(s) = 0 THEN <<>>
    ELSE LET rest == loc(SubSeq(s, 1, Len(s) - 1), SubSeq(mask, 1, Len(s) - 1))
         IN  IF mask[Len(s)] THEN Append(rest, s[Len(s)]) ELSE rest

\* Index.is_monotonic_increasing (non-strict)
is_monotonic_increasing(s) == \A i \in 1..(Len(s) - 1) : s[i].date <= s[i + 1].date

\* e put into the ascending sequence s, behind the entries of the same date
RECURSIVE Insert(_, _)
Insert(s, e) ==
    IF Len(s) = 0 THEN <<e>>
    ELSE IF s[Len(s)].date <= e.date THEN Append(s, e)
    ELSE Append(Insert(SubSeq(s, 1, Len(s) - 1), e), s[Len(s)])

\* a single pass of adjacent exchanges: leaves longer series unsorted
RECURSIVE OnePass(_)
OnePass(s) ==
    IF Len(s) < 2 THEN s
    ELSE IF s[1].date > s[2].date
         THEN <<s[2]>> \o OnePass(<<s[1]>> \o SubSeq(s, 3, Len(s)))
         ELSE <<s[1]>> \o OnePass(SubSeq(s, 2, Len(s)))

\* Series.sort_index(ascending=True)
RECURSIVE sort_index(_)
sort_index(s) ==
    IF Len(s) = 0 THEN <<>>
    ELSE Insert(sort_index(SubSeq(s, 1, Len(s) - 1)), s[Len(s)])

\* process_series without the removal of duplicates
process_series_nodedup(s) ==
    IF ~is_monotonic_increasing(s) THEN sort_index(s) ELSE s

process_series(s) ==
    LET d == IF has_duplicates(s)
               THEN loc(s, [i \in 1..Len(s) |-> ~duplicated(s)[i]])
               ELSE s
    IN  IF ~is_monotonic_increasing(d) THEN sort_index(d) ELSE d

-----------------------------------------------------------------------------
(* The calculator object *)

\* RRGCalculator(roc_shift=k, ema_roc_span=m) with the other defaults
RRGCalculator(k, m) ==
    [window |-> 14, period |-> 52, ema_span |-> 14, roc_shift |-> k, ema_roc_span |-> m]

Spans  == 2..MaxSpan
Shifts == 1..MaxShift

NoSeries   == <<>>
NoValue    == NaN
NoQuadrant == "none"

-----------------------------------------------------------------------------
(* Series.ewm(span=span, adjust=False).mean()                               *)
(* The library's loop keeps the running average `weighted`, the weight      *)
(* `old_wt` of that average and the number `nobs` of observations seen; an  *)
(* observation is any value that is not NaN.                               *)

\* alpha = 1/span, the smoothing factor of ewm(alpha=1/span)
AlphaOfCom(span) == Rat(1, span)

\* span to smoothing factor: alpha = 2 / (span + 1)
Alpha(span) == Rat(2, span + 1)

\* a missing first value taken as the observation 0 (the series filled first)
EwmFirstFilled(v) ==
    [weighted |-> IF IsNaN(v) THEN F(0) ELSE v, old_wt |-> F(1), nobs |-> 1]

\* the state at the first position: weighted = vals[0]
EwmFirst(v) ==
    [weighted |-> v, old_wt |-> F(1), nobs |-> IF IsNaN(v) THEN 0 ELSE 1]

\* one turn of the loop (ignore_na=False, adjust=False)
EwmStep(st, cur, alpha) ==
    LET is_observation == ~IsNaN(cur)
        nobs == st.nobs + (IF is_observation THEN 1 ELSE 0)
    IN  IF ~IsNaN(st.weighted)
          THEN LET old_wt == FMul(st.old_wt, FSub(F(1), alpha))
               IN  IF is_observation
                     THEN [weighted |->
                               IF st.weighted # cur
                                 THEN FDiv(FAdd(FMul(old_wt, st.weighted),
                                                FMul(alpha, cur)),
                                           FAdd(old_wt, alpha))
                                 ELSE st.weighted,
                           old_wt |-> F(1),
                           nobs |-> nobs]
                     ELSE [weighted |-> st.weighted, old_wt |-> old_wt, nobs |-> nobs]
          ELSE IF is_observation
                 THEN [weighted |-> cur, old_wt |-> st.old_wt, nobs |-> nobs]
                 ELSE [weighted |-> st.weighted, old_wt |-> st.old_wt, nobs |-> nobs]

\* output[i] = weighted if nobs >= minp else NaN, with minp = 1
EwmOutput(st) == IF st.nobs >= 1 THEN st.weighted ELSE NaN

\* the loop over the positions i..Len(vals), st the state after position
\* i - 1 and out the output up to it
RECURSIVE EwmLoop(_, _, _, _, _)
EwmLoop(vals, i, st, alpha, out) ==
    IF i > Len(vals) THEN out
    ELSE LET next == EwmStep(st, vals[i], alpha)
         IN  EwmLoop(vals, i + 1, next, alpha, Append(out, EwmOutput(next)))

\* the window functions first turn an infinite value into a missing one
prep_values(vals) == [i \in 1..Len(vals) |-> IF IsInf(vals[i]) THEN NaN ELSE vals[i]]

ewm_mean(vals, span) ==
    IF Len(vals) = 0 THEN <<>>
    ELSE LET values == prep_values(vals)
             first  == EwmFirst(values[1])
         IN  EwmLoop(values, 2, first, Alpha(span), <<EwmOutput(first)>>)

-----------------------------------------------------------------------------
(* Series.rolling(window=window).mean(): min_periods is the window, and an  *)
(* infinity counts as a missing value                                      *)

RECURSIVE SumOf(_, _, _)
SumOf(vals, from, to) ==
    IF from > to THEN F(0) ELSE FAdd(SumOf(vals, from, to - 1), vals[to])

\* the trailing sum in place of the trailing mean
rolling_sum(vals, window) ==
    [t \in 1..Len(vals) |->
        IF t >= window /\ \A j \in (t - window + 1)..t : IsFinite(vals[j])
          THEN SumOf(vals, t - window + 1, t)
          ELSE NaN]

rolling_mean(vals, window) ==
    [t \in 1..Len(vals) |->
        IF t >= window /\ \A j \in (t - window + 1)..t : IsFinite(vals[j])
          THEN FDiv(SumOf(vals, t - window + 1, t), F(window))
          ELSE NaN]

\* Series.replace(0, np.nan)
replace_zero(vals) == [i \in 1..Len(vals) |-> IF IsZero(vals[i]) THEN NaN ELSE vals[i]]

\* a lag of k + 1 positions in place of k
shift_one_more(vals, k) == [i \in 1..Len(vals) |-> IF i > k + 1 THEN vals[i - k - 1] ELSE NaN]

\* Series.shift(k): the value from k positions earlier, NaN at the first k
shift(vals, k) == [i \in 1..Len(vals) |-> IF i > k THEN vals[i - k] ELSE NaN]

Max(a, b) == IF a >= b THEN a ELSE b

\* stock_df / benchmark_df on two price series indexed 1..Len: a position
\* that one of them lacks gives NaN
Divide(a, b) ==
    [i \in 1..Max(Len(a), Len(b)) |->
        IF i <= Len(a) /\ i <= Len(b) THEN FDiv(F(a[i]), F(b[i])) ELSE NaN]

-----------------------------------------------------------------------------
(* calculate_rs, calculate_momentum, get_quadrant *)

\* the rolling mean over the deprecated window in place of ema_roc_span
calculate_rs_window(self, stock, benchmark) ==
    LET rs          == Divide(stock, benchmark)
        ema_rs      == ewm_mean(rs, self.ema_roc_span)
        ema_rs_mean == rolling_mean(ema_rs, self.window)
        denom       == replace_zero(ema_rs_mean)
    IN  [i \in 1..Len(rs) |-> FDiv(FMul(F(100), ema_rs[i]), denom[i])]

calculate_rs(self, stock, benchmark) ==
    LET rs          == Divide(stock, benchmark)
        ema_rs      == ewm_mean(rs, self.ema_roc_span)
        ema_rs_mean == rolling_mean(ema_rs, self.ema_roc_span)
        denom       == replace_zero(ema_rs_mean)
    IN  [i \in 1..Len(rs) |-> FDiv(FMul(F(100), ema_rs[i]), denom[i])]

\* the quotient RS_Ratio / RS_Ratio.shift(k), the difference left out
roc_quotient(ratio, k) ==
    LET shifted == shift(ratio, k)
        denom   == replace_zero(shifted)
    IN  [i \in 1..Len(ratio) |-> FDiv(ratio[i], denom[i])]

\* ROC = (RS_Ratio - RS_Ratio.shift(k)) / RS_Ratio.shift(k)
roc_of(ratio, k) ==
    LET shifted == shift(ratio, k)
        denom   == replace_zero(shifted)
    IN  [i \in 1..Len(ratio) |-> FDiv(FSub(ratio[i], shifted[i]), denom[i])]

calculate_momentum(self, ratio) ==
    LET roc     == roc_of(ratio, self.roc_shift)
        ema_roc == ewm_mean(roc, self.ema_roc_span)
    IN  [i \in 1..Len(ratio) |-> FAdd(F(100), FMul(F(100), ema_roc[i]))]

\* the boundary put on the other side: >= 100
get_quadrant_ge(r, mo) ==
    IF ~FGt(F(100), r) /\ ~IsNaN(r) /\ ~FGt(F(100), mo) /\ ~IsNaN(mo) THEN "Leading"
    ELSE IF ~FGt(F(100), r) /\ ~IsNaN(r) /\ FGt(F(100), mo) THEN "Weakening"
    ELSE IF FGt(F(100), r) /\ ~FGt(F(100), mo) /\ ~IsNaN(mo) THEN "Improving"
    ELSE "Lagging"

get_quadrant(r, mo) ==
    IF FGt(r, F(100)) /\ FGt(mo, F(100)) THEN "Leading"
    ELSE IF FGt(r, F(100)) /\ FLe(mo, F(100)) THEN "Weakening"
    ELSE IF FLe(r, F(100)) /\ FGt(mo, F(100)) THEN "Improving"
    ELSE "Lagging"

-----------------------------------------------------------------------------
(* generate_chart (src/app.py): the calculator it builds and the loop over  *)
(* the selected instruments                                                 *)

\* st.session_state.get(key, default)
Get(state, key, default) == IF key \in DOMAIN state THEN state[key] ELSE default

\* RRGCalculator(window=.., period=.., ema_span=.., roc_shift=.., ema_roc_span=..)
NewCalculator(window, period, ema_span, roc_shift, ema_roc_span) ==
    [window |-> window, period |-> period, ema_span |-> ema_span,
     roc_shift |-> roc_shift, ema_roc_span |-> ema_roc_span]

\* ser.index and ser.values
IndexOf(s)  == [i \in 1..Len(s) |-> s[i].date]
ValuesOf(s) == [i \in 1..Len(s) |-> s[i].val]

\* Index.intersection of two ascending indexes without duplicates: the
\* labels of the first that the second holds, in their order
RECURSIVE intersection(_, _)
intersection(a, b) ==
    IF Len(a) = 0 THEN <<>>
    ELSE LET rest == intersection(SubSeq(a, 1, Len(a) - 1), b)
         IN  IF \E j \in 1..Len(b) : b[j] = a[Len(a)]
               THEN Append(rest, a[Len(a)])
               ELSE rest

\* the first entries of the series, as many as there are labels
loc_positions(s, labels) == [i \in 1..Len(labels) |-> s[i]]

\* ser.loc[labels] on a series without duplicate labels
loc_labels(s, labels) ==
    [i \in 1..Len(labels) |-> s[CHOOSE j \in 1..Len(s) : s[j].date = labels[i]]]

Symbols == {"A", "B"}

\* a benchmark history: one close on each of the dates 1..MaxHistory but the
\* date hole (none lacking when hole = 0)
BenchmarkCloses(hole) ==
    LET dates == [i \in 1..(MaxHistory - (IF hole = 0 THEN 0 ELSE 1)) |->
                     IF hole = 0 \/ i < hole THEN i ELSE i + 1]
    IN  [i \in 1..Len(dates) |-> [date |-> dates[i], val |-> 2]]

Reverse(s) == [i \in 1..Len(s) |-> s[Len(s) + 1 - i]]

\* an instrument history: one close on each of the dates lead + 1 ..
\* MaxHistory, ascending or descending, with or without a second entry for
\* its first date at the end
ItemCloses(lead, descending, repeated) ==
    LET asc     == [i \in 1..(MaxHistory - lead) |-> [date |-> lead + i, val |-> 3]]
        ordered == IF descending THEN Reverse(asc) ELSE asc
    IN  IF repeated THEN Append(ordered, [date |-> ordered[1].date, val |-> 4])
                    ELSE ordered

\* what get_token and get_stock_data give for an instrument: no token, no
\* data, an empty frame, or a price history
ItemOutcomes ==
    {[kind |-> "no_token", Close |-> <<>>],
     [kind |-> "no_data", Close |-> <<>>],
     [kind |-> "data", Close |-> <<>>]}
    \cup {[kind |-> "data", Close |-> ItemCloses(lead, descending, repeated)] :
             lead \in 0..MaxLead, descending \in BOOLEAN, repeated \in BOOLEAN}

\* nothing fetched, nothing passed to the calculator, nothing stored
NotFetched == [kind |-> "pending", Close |-> <<>>]
NotCalled  == [called |-> FALSE, item |-> <<>>, benchmark |-> <<>>]
NotStored  == [stored |-> FALSE, rs_series |-> <<>>, momentum_series |-> <<>>]

ChartIdle ==
    /\ session_state = [ema_roc_span |-> 14, roc_shift |-> 10, available_dates |-> {}]
    /\ benchmark_closes = <<>>
    /\ all_selected = <<>>
    /\ item_idx = 1
    /\ item_df = [sym \in Symbols |-> NotFetched]
    /\ aligned = [sym \in Symbols |-> NotCalled]
    /\ items_data = [sym \in Symbols |-> NotStored]

-----------------------------------------------------------------------------
(* AngelOneLoader.get (src/src/loaders/AngelOneLoader.py), daily timeframe  *)

NoToken == "None"

\* the response of smartApi.getCandleData: the call raised, gave nothing,
\* gave a message without 'data', or gave 'data' (a list of candles, here
\* the date and the close of each; in a malformed one a field is missing or
\* not a number)
NoResponse == [kind |-> "pending", data |-> <<>>]

Unavailable ==
    {[kind |-> "exception", data |-> <<>>],
     [kind |-> "nothing", data |-> <<>>],
     [kind |-> "no_data_key", data |-> <<>>]}

EmptySuccess == [kind |-> "data", data |-> <<>>]

Responses ==
    Unavailable
    \cup {[kind |-> kind, data |-> d] :
             kind \in {"data", "malformed"},
             d \in UNION {[1..n -> Entries] : n \in 1..MaxCandles}}
    \cup {EmptySuccess}

\* return None, and return df
ReturnNone     == [returned |-> TRUE, none |-> TRUE, df |-> <<>>]
ReturnFrame(df) == [returned |-> TRUE, none |-> FALSE, df |-> df]
NotReturned    == [returned |-> FALSE, none |-> FALSE, df |-> <<>>]

\* df.iloc[-period:]
iloc_last(df, period) ==
    IF Len(df) > period THEN SubSeq(df, Len(df) - period + 1, Len(df)) ELSE df

\* days are numbered from a Monday: the weekday of a day (0 Monday .. 6
\* Sunday) and the Friday that ends its week
weekday(day)  == day % 7
week_end(day) == day + ((4 - weekday(day) + 7) % 7)

\* df.resample('W-FRI').agg({... 'Close': 'last' ...}): one row for each
\* week with a candle, labelled by its Friday, with the last close of the week
RECURSIVE resample_w_fri(_)
resample_w_fri(df) ==
    IF Len(df) = 0 THEN <<>>
    ELSE LET rest == resample_w_fri(SubSeq(df, 1, Len(df) - 1))
             e    == df[Len(df)]
         IN  IF Len(rest) > 0 /\ rest[Len(rest)].date = week_end(e.date)
               THEN [rest EXCEPT ![Len(rest)].val = e.val]
               ELSE Append(rest, [date |-> week_end(e.date), val |-> e.val])

\* .dropna()
dropna(df) == SelectSeq(df, LAMBDA e : ~IsNaN(e.val))

\* df[df_index_normalized < today_tz]
before(df, day) == SelectSeq(df, LAMBDA e : e.date < day)

\* the weekly branch of get: today's candle is left out when at least 10
\* candles remain, the candles are resampled, and the last weekly candle is
\* removed when it ends more than 2 days after the last trading day
weekly_candles(df, now) ==
    LET excluded    == before(df, now)
        df_filtered == IF df[Len(df)].date = now /\ Len(df) > 1
                         THEN (IF Len(excluded) < 10 THEN df ELSE excluded)
                         ELSE df
        df_weekly   == dropna(resample_w_fri(df_filtered))
        last_trading_day == df_filtered[Len(df_filtered)].date
    IN  IF Len(df_weekly) > 0
           /\ df_weekly[Len(df_weekly)].date - last_trading_day > 2
          THEN SubSeq(df_weekly, 1, Len(df_weekly) - 1)
          ELSE df_weekly

\* AngelOneLoader.get(symbol, token) when getCandleData answers response on
\* the day now
loader_get(self, tok, response, now) ==
    IF tok = NoToken THEN ReturnNone
    ELSE IF response.kind = "exception" THEN ReturnNone
    ELSE IF response.kind \in {"nothing", "no_data_key"} THEN ReturnNone
    ELSE IF Len(response.data) = 0 THEN ReturnNone
    ELSE IF response.kind = "malformed" THEN ReturnNone
    ELSE LET sorted    == sort_index(response.data)
             resampled == IF self.tf = "weekly" THEN weekly_candles(sorted, now)
                          ELSE sorted
             df        == iloc_last(resampled, self.period)
         IN  IF Len(df) = 0 THEN ReturnNone ELSE ReturnFrame(df)

LoaderIdle ==
    /\ loader = [tf |-> "daily", period |-> 160, closed |-> FALSE]
    /\ token = NoToken
    /\ api_response = NoResponse
    /\ get_result = NotReturned
    /\ today = 0

-----------------------------------------------------------------------------
(* The instrument catalog (src/src/scrip_master_search.py and               *)
(* src/src/token_fetcher.py).  A string is the sequence of its character    *)
(* codes.                                                                   *)

\* entries of OpenAPIScripMaster.json
IndexAB  == [symbol |-> <<65, 66>>,                      \* "AB"
             name |-> <<65, 98>>,                        \* "Ab"
             token |-> "11", exch_seg |-> "NSE", instrumenttype |-> "AMXIDX"]
IndexB   == [symbol |-> <<66>>,                          \* "B"
             name |-> <<98, 32, 97>>,                    \* "b a"
             token |-> "12", exch_seg |-> "NSE", instrumenttype |-> "AMXIDX"]
StockA   == [symbol |-> <<65, 45, 69, 81>>,              \* "A-EQ"
             name |-> <<65>>,                            \* "A"
             token |-> "21", exch_seg |-> "NSE", instrumenttype |-> ""]
StockB   == [symbol |-> <<66, 45, 69, 81>>,              \* "B-EQ"
             name |-> <<97, 98>>,                        \* "ab"
             token |-> "22", exch_seg |-> "NSE", instrumenttype |-> "EQ"]
EtfA     == [symbol |-> <<65, 69, 84, 70, 45, 69, 81>>,  \* "AETF-EQ"
             name |-> <<65, 32, 69, 84, 70>>,            \* "A ETF"
             token |-> "31", exch_seg |-> "NSE", instrumenttype |-> ""]
BseIndex == [symbol |-> <<65, 66>>,                      \* "AB"
             name |-> <<65, 98>>,                        \* "Ab"
             token |-> "41", exch_seg |-> "BSE", instrumenttype |-> "AMXIDX"]

\* str.upper() on ASCII, str.strip(), `sub in s`, str.startswith,
\* str.endswith, s.replace(sub, ""), and the order of strings
upper(s) == [i \in 1..Len(s) |-> IF s[i] \in 97..122 THEN s[i] - 32 ELSE s[i]]

isspace(c) == c \in (9..13) \cup (28..32)

RECURSIVE lstrip(_)
lstrip(s) == IF Len(s) > 0 /\ isspace(s[1]) THEN lstrip(SubSeq(s, 2, Len(s))) ELSE s

RECURSIVE rstrip(_)
rstrip(s) ==
    IF Len(s) > 0 /\ isspace(s[Len(s)]) THEN rstrip(SubSeq(s, 1, Len(s) - 1)) ELSE s

strip(s) == rstrip(lstrip(s))

occurs_at(sub, s, i) ==
    /\ i + Len(sub) - 1 <= Len(s)
    /\ \A j \in 1..Len(sub) : s[i + j - 1] = sub[j]

contains(s, sub)   == \E i \in 1..(Len(s) + 1) : occurs_at(sub, s, i)
startswith(s, sub) == occurs_at(sub, s, 1)
endswith(s, sub)   == Len(sub) <= Len(s) /\ occurs_at(sub, s, Len(s) - Len(sub) + 1)

RECURSIVE remove(_, _)
remove(s, sub) ==
    IF Len(s) = 0 \/ Len(sub) = 0 THEN s
    ELSE IF occurs_at(sub, s, 1) THEN remove(SubSeq(s, Len(sub) + 1, Len(s)), sub)
    ELSE <<s[1]>> \o remove(SubSeq(s, 2, Len(s)), sub)

RECURSIVE str_le(_, _)
str_le(a, b) ==
    IF Len(a) = 0 THEN TRUE
    ELSE IF Len(b) = 0 THEN FALSE
    ELSE IF a[1] # b[1] THEN a[1] < b[1]
    ELSE str_le(SubSeq(a, 2, Len(a)), SubSeq(b, 2, Len(b)))

EQ   == <<45, 69, 81>>        \* "-EQ"
ETF  == <<69, 84, 70>>        \* "ETF"
BEES == <<66, 69, 69, 83>>    \* "BEES"

\* the dictionary a search returns for an entry
descriptor(item) ==
    [symbol |-> item.symbol, name |-> item.name, token |-> item.token,
     exchange |-> item.exch_seg]

\* list.sort(key=lambda x: x["name"]): stable
RECURSIVE insert_by_name(_, _)
insert_by_name(l, e) ==
    IF Len(l) = 0 THEN <<e>>
    ELSE IF str_le(l[Len(l)].name, e.name) THEN Append(l, e)
    ELSE Append(insert_by_name(SubSeq(l, 1, Len(l) - 1), e), l[Len(l)])

RECURSIVE sort_by_name(_)
sort_by_name(l) ==
    IF Len(l) = 0 THEN <<>>
    ELSE insert_by_name(sort_by_name(SubSeq(l, 1, Len(l) - 1)), l[Len(l)])

\* the entries of l for which keep is TRUE, as descriptors, in their order
RECURSIVE select(_, _)
select(l, keep) ==
    IF Len(l) = 0 THEN <<>>
    ELSE LET rest == select(SubSeq(l, 1, Len(l) - 1), SubSeq(keep, 1, Len(l) - 1))
         IN  IF keep[Len(l)] THEN Append(rest, descriptor(l[Len(l)])) ELSE rest

is_index(item, exchange) ==
    item.exch_seg = exchange /\ item.instrumenttype = "AMXIDX"

has_etf_name(item) ==
    \/ contains(upper(item.name), ETF) \/ contains(upper(item.name), BEES)
    \/ contains(upper(item.symbol), ETF) \/ contains(upper(item.symbol), BEES)

is_stock(item, exchange) ==
    /\ item.exch_seg = exchange
    /\ endswith(item.symbol, EQ)
    /\ item.instrumenttype \in {"", "EQ"}
    /\ ~has_etf_name(item)

is_etf(item, exchange) ==
    /\ item.exch_seg = exchange
    /\ item.instrumenttype \in {"", "EQ"}
    /\ endswith(item.symbol, EQ)
    /\ has_etf_name(item)

\* get_indices, get_stocks, get_etfs on the catalog scrip_data
get_indices(scrip_data, exchange) ==
    sort_by_name(select(scrip_data,
        [i \in 1..Len(scrip_data) |-> is_index(scrip_data[i], exchange)]))
get_stocks(scrip_data, exchange) ==
    sort_by_name(select(scrip_data,
        [i \in 1..Len(scrip_data) |-> is_stock(scrip_data[i], exchange)]))
get_etfs(scrip_data, exchange) ==
    sort_by_name(select(scrip_data,
        [i \in 1..Len(scrip_data) |-> is_etf(scrip_data[i], exchange)]))

Modules == {"scrip_master_search", "token_fetcher"}
Threads == {"main", "worker"}

\* _scrip_master_cache = None, and _scrip_master_cache = data
NoCache      == [loaded |-> FALSE, data |-> <<>>]
Cached(data) == [loaded |-> TRUE, data |-> data]

\* what the catalog URL serves at the time of a request
CatalogVersions == {<<IndexAB>>, <<IndexAB, StockA>>}

\* a thread outside fetch_scrip_master
Outside == [pc |-> "idle", mod |-> "scrip_master_search", response |-> NoCache,
            ret |-> NoCache]

CatalogIdle ==
    /\ cache = [mod \in Modules |-> NoCache]
    /\ thread = [t \in Threads |-> Outside]
    /\ events = <<>>

\* a function of one of the two modules calls the fetch_scrip_master of its
\* module
Call(t, mod) ==
    /\ thread[t].pc \in {"idle", "done"}
    /\ thread' = [thread EXCEPT ![t] = [Outside EXCEPT !.pc = "check", !.mod = mod]]
    /\ UNCHANGED <<cache, events>>

\* if _scrip_master_cache is None:
Check(t) ==
    /\ thread[t].pc = "check"
    /\ thread' = [thread EXCEPT ![t].pc =
                      IF cache[thread[t].mod].loaded THEN "return" ELSE "request"]
    /\ UNCHANGED <<cache, events>>

\* the except branch setting _scrip_master_cache = None before return None
request_resetting(t) ==
    /\ thread[t].pc = "request"
    /\ Len(events) < MaxEvents
    /\ \/ /\ events' = Append(events, [kind |-> "failed", mod |-> thread[t].mod,
                                        data |-> <<>>])
          /\ thread' = [thread EXCEPT ![t].pc = "done", ![t].ret = NoCache]
          /\ cache' = [cache EXCEPT ![thread[t].mod] = NoCache]
       \/ \E data \in CatalogVersions :
             /\ events' = Append(events, [kind |-> "downloaded",
                                          mod |-> thread[t].mod, data |-> data])
             /\ thread' = [thread EXCEPT ![t].pc = "assign",
                                         ![t].response = Cached(data)]
             /\ UNCHANGED cache

\* requests.get, raise_for_status, response.json(): the request fails and
\* fetch_scrip_master returns None, or it gives the catalog
Request(t) ==
    /\ thread[t].pc = "request"
    /\ Len(events) < MaxEvents
    /\ \/ /\ events' = Append(events, [kind |-> "failed", mod |-> thread[t].mod,
                                        data |-> <<>>])
          /\ thread' = [thread EXCEPT ![t].pc = "done", ![t].ret = NoCache]
       \/ \E data \in CatalogVersions :
             /\ events' = Append(events, [kind |-> "downloaded",
                                          mod |-> thread[t].mod, data |-> data])
             /\ thread' = [thread EXCEPT ![t].pc = "assign",
                                         ![t].response = Cached(data)]
    /\ UNCHANGED cache

\* _scrip_master_cache = response.json()
Assign(t) ==
    /\ thread[t].pc = "assign"
    /\ cache' = [cache EXCEPT ![thread[t].mod] = thread[t].response]
    /\ thread' = [thread EXCEPT ![t].pc = "return"]
    /\ UNCHANGED events

\* return _scrip_master_cache
Return(t) ==
    /\ thread[t].pc = "return"
    /\ thread' = [thread EXCEPT ![t].pc = "done", ![t].ret = cache[thread[t].mod]]
    /\ UNCHANGED <<cache, events>>

\* clear_scrip_master_cache()
Clear ==
    /\ Len(events) < MaxEvents
    /\ cache' = [cache EXCEPT !["scrip_master_search"] = NoCache]
    /\ events' = Append(events, [kind |-> "cleared", mod |-> "scrip_master_search",
                                 data |-> <<>>])
    /\ UNCHANGED thread

\* the loop of a search over the candidates l: those that match are
\* appended to results, and the loop ends when results has limit entries
RECURSIVE collect(_, _, _, _, _)
collect(l, matches, i, results, limit) ==
    IF i > Len(l) THEN results
    ELSE IF matches[i]
         THEN LET appended == Append(results, l[i])
              IN  IF Len(appended) >= limit THEN appended
                  ELSE collect(l, matches, i + 1, appended, limit)
         ELSE collect(l, matches, i + 1, results, limit)

\* the name or the symbol holds the query
in_name_or_symbol(d, query_upper) ==
    contains(upper(d.name), query_upper) \/ contains(upper(d.symbol), query_upper)

\* search_indices(query, exchange, limit) when fetch_scrip_master gives scrip
search_indices(scrip, query, exchange, limit) ==
    IF Len(query) = 0 \/ ~scrip.loaded \/ Len(strip(upper(query))) = 0 THEN <<>>
    ELSE LET scrip_data  == scrip.data
             query_upper == strip(upper(query))
             direct == collect(
                 [i \in 1..Len(scrip_data) |-> descriptor(scrip_data[i])],
                 [i \in 1..Len(scrip_data) |->
                     /\ is_index(scrip_data[i], exchange)
                     /\ \/ in_name_or_symbol(scrip_data[i], query_upper)
                        \/ startswith(upper(scrip_data[i].symbol), query_upper)
                        \/ startswith(upper(scrip_data[i].name), query_upper)],
                 1, <<>>, limit)
             all_indices == get_indices(scrip_data, exchange)
         IN  IF Len(direct) = 0
               THEN collect(all_indices,
                            [i \in 1..Len(all_indices) |->
                                in_name_or_symbol(all_indices[i], query_upper)],
                            1, <<>>, limit)
               ELSE direct

\* search_stocks(query, exchange, limit)
search_stocks(scrip, query, exchange, limit) ==
    IF Len(query) = 0 \/ ~scrip.loaded \/ Len(strip(upper(query))) = 0 THEN <<>>
    ELSE LET scrip_data  == scrip.data
             query_upper == strip(upper(query))
             query_base  == remove(query_upper, EQ)
             base_match(d) ==
                 LET symbol_base == remove(upper(d.symbol), EQ)
                 IN  \/ contains(upper(d.symbol), query_upper)
                     \/ contains(symbol_base, query_base)
                     \/ startswith(symbol_base, query_base)
                     \/ contains(upper(d.name), query_upper)
                     \/ startswith(upper(d.name), query_upper)
             direct == collect(
                 [i \in 1..Len(scrip_data) |-> descriptor(scrip_data[i])],
                 [i \in 1..Len(scrip_data) |->
                     /\ is_stock(scrip_data[i], exchange)
                     /\ \/ upper(scrip_data[i].symbol) = query_upper
                        \/ remove(upper(scrip_data[i].symbol), EQ) = query_base
                        \/ base_match(scrip_data[i])],
                 1, <<>>, limit)
             all_stocks == get_stocks(scrip_data, exchange)
         IN  IF Len(direct) = 0
               THEN collect(all_stocks,
                            [i \in 1..Len(all_stocks) |-> base_match(all_stocks[i])],
                            1, <<>>, limit)
               ELSE direct

\* search_etfs(query, exchange, limit)
search_etfs(scrip, query, exchange, limit) ==
    IF Len(query) = 0 \/ ~scrip.loaded \/ Len(strip(upper(query))) = 0 THEN <<>>
    ELSE LET scrip_data  == scrip.data
             query_upper == strip(upper(query))
             direct == collect(
                 [i \in 1..Len(scrip_data) |-> descriptor(scrip_data[i])],
                 [i \in 1..Len(scrip_data) |->
                     /\ is_etf(scrip_data[i], exchange)
                     /\ \/ in_name_or_symbol(scrip_data[i], query_upper)
                        \/ startswith(upper(scrip_data[i].symbol), query_upper)
                        \/ startswith(upper(scrip_data[i].name), query_upper)],
                 1, <<>>, limit)
             all_etfs == get_etfs(scrip_data, exchange)
         IN  IF Len(direct) = 0
               THEN collect(all_etfs,
                            [i \in 1..Len(all_etfs) |->
                                in_name_or_symbol(all_etfs[i], query_upper)],
                            1, <<>>, limit)
               ELSE direct

\* the search function named fn
search(fn, scrip, query, exchange, limit) ==
    CASE fn = "search_indices" -> search_indices(scrip, query, exchange, limit)
      [] fn = "search_stocks"  -> search_stocks(scrip, query, exchange, limit)
      [] fn = "search_etfs"    -> search_etfs(scrip, query, exchange, limit)

NotSearched == [returned |-> FALSE, list |-> <<>>]

SearchIdle ==
    /\ search_call = [fn |-> "search_indices", query |-> <<>>, exchange |-> "NSE",
                      limit |-> 50]
    /\ search_results = NotSearched

NoTokenResult == [returned |-> FALSE, token |-> NoToken]

TokenIdle ==
    /\ token_call = [symbol |-> <<>>, exchange |-> "NSE"]
    /\ token_result = NoTokenResult

\* st.session_state.loader = None, and a reference to loaders[i]
NoLoader == 0

\* chart_cache_key = None, cutoff_date = None
NoKey    == <<>>
NoCutoff == 0

\* the session state at the first run of main() (lines 100-134 and the
\* defaults of the widgets)
FirstLoad ==
    [timeframe |-> "weekly", previous_timeframe |-> "none", period |-> 200,
     tail_count |-> 8, loader |-> NoLoader, chart_cache_key |-> NoKey,
     cached_chart |-> FALSE, cached_items_data |-> FALSE, is_initialized |-> FALSE,
     selected |-> <<>>, cutoff_date |-> NoCutoff, slider_index |-> 0,
     initialization_keys |-> {}]

NotRun == [n |-> 0, generated |-> FALSE, current_cache_key |-> NoKey,
           previous_cache_key |-> NoKey, items_just_initialized |-> FALSE,
           had_data |-> FALSE, fetches |-> <<>>]

MainIdle == ui = FirstLoad /\ loaders = <<>> /\ run = NotRun

NotInitialized == [returned |-> FALSE, loader |-> NoLoader, attempts |-> 0]

InitIdle == init_call = <<>> /\ init_result = NotInitialized

NotGenerated == [returned |-> FALSE, fig |-> FALSE, calculator |-> FALSE,
                 items_data |-> <<>>]

GenIdle == gen_env = <<>> /\ gen_result = NotGenerated

\* no chart drawn, no table shown
NotDrawn == [drawn |-> FALSE, tail_count |-> 8, cutoff_date |-> 0, traces |-> <<>>]
NotShown == [shown |-> FALSE, rows |-> <<>>]
PlotIdle == fig = NotDrawn /\ data_rows = NotShown

\* the session state on the first load: the Index tab, nothing selected
NothingSelected ==
    [active_tab |-> "Index", selected_indices |-> <<>>, selected_stocks |-> <<>>,
     selected_etfs |-> <<>>]
SelIdle == tabs = NothingSelected

AppIdle == TokenIdle /\ MainIdle /\ InitIdle /\ GenIdle /\ PlotIdle /\ SelIdle

RestIdle ==
    calls = 0 /\ ChartIdle /\ LoaderIdle /\ CatalogIdle /\ SearchIdle /\ AppIdle

engineVars == <<ser, processed, stock_df, benchmark_df, rs_ratio, rs_momentum,
                rs_value, momentum_value, quadrant, pc>>

EngineIdle ==
    /\ ser = NoSeries
    /\ processed = NoSeries
    /\ stock_df = NoSeries
    /\ benchmark_df = NoSeries
    /\ rs_ratio = NoSeries
    /\ rs_momentum = NoSeries
    /\ rs_value = NoValue
    /\ momentum_value = NoValue
    /\ quadrant = NoQuadrant
    /\ pc = "start"

-----------------------------------------------------------------------------
(* Operations *)

\* the series of the caller sorted in place
ProcessSeriesInPlace ==
    /\ pc = "start"
    /\ processed' = process_series(ser)
    /\ ser' = process_series(ser)
    /\ pc' = "process_series"
    /\ UNCHANGED <<calc, rsVars, momVars, quadVars>>
    /\ UNCHANGED restVars

ProcessSeries ==
    /\ pc = "start"
    /\ processed' = process_series(ser)
    /\ pc' = "process_series"
    /\ UNCHANGED <<calc, ser, rsVars, momVars, quadVars>>
    /\ UNCHANGED restVars

\* the returned series is given to process_series again
ProcessSeriesAgain ==
    /\ pc = "process_series"
    /\ ser' = processed
    /\ processed' = process_series(processed)
    /\ pc' = "process_series_again"
    /\ UNCHANGED <<calc, rsVars, momVars, quadVars>>
    /\ UNCHANGED restVars

\* rs_series = calculator.calculate_rs(item_aligned, benchmark_aligned)
CalculateRs ==
    /\ pc = "start"
    /\ rs_ratio' = calculate_rs(calc, stock_df, benchmark_df)
    /\ pc' = "calculate_rs"
    /\ UNCHANGED <<calc, normVars, rsVars, rs_momentum, quadVars>>
    /\ UNCHANGED restVars

\* momentum_series = calculator.calculate_momentum(rs_series), on the series
\* calculate_rs returned or on a ratio series given by the caller
CalculateMomentum ==
    /\ pc \in {"calculate_rs", "ratio_given"}
    /\ rs_momentum' = calculate_momentum(calc, rs_ratio)
    /\ pc' = "calculate_momentum"
    /\ UNCHANGED <<calc, normVars, rsVars, rs_ratio, quadVars>>
    /\ UNCHANGED restVars

GetQuadrant ==
    /\ pc = "start"
    /\ quadrant' = get_quadrant(rs_value, momentum_value)
    /\ pc' = "get_quadrant"
    /\ UNCHANGED <<calc, normVars, rsVars, momVars, rs_value, momentum_value>>
    /\ UNCHANGED restVars

-----------------------------------------------------------------------------
(* Specifications: each draws the arguments of the calls it makes *)

\* process_series on every series of at most MaxLen entries
InitNorm ==
    /\ calc = RRGCalculator(10, 14)
    /\ ser \in UNION {[1..n -> Entries] : n \in 0..MaxLen}
    /\ processed = NoSeries
    /\ stock_df = NoSeries
    /\ benchmark_df = NoSeries
    /\ rs_ratio = NoSeries
    /\ rs_momentum = NoSeries
    /\ rs_value = NoValue
    /\ momentum_value = NoValue
    /\ quadrant = NoQuadrant
    /\ pc = "start"
    /\ RestIdle

NextNorm == ProcessSeries \/ ProcessSeriesAgain

SpecNorm == InitNorm /\ [][NextNorm]_vars

StockPrices == {0, 1, 2}
BenchPrices == {1, 2}

\* calculate_rs on every pair of aligned price series of equal length, at
\* most MaxPriceLen, with non-zero benchmark prices
InitRs ==
    /\ \E m \in Spans : calc = RRGCalculator(10, m)
    /\ \E n \in 0..MaxPriceLen :
          /\ stock_df \in [1..n -> StockPrices]
          /\ benchmark_df \in [1..n -> BenchPrices]
    /\ ser = NoSeries
    /\ processed = NoSeries
    /\ rs_ratio = NoSeries
    /\ rs_momentum = NoSeries
    /\ rs_value = NoValue
    /\ momentum_value = NoValue
    /\ quadrant = NoQuadrant
    /\ pc = "start"
    /\ RestIdle

NextRs == CalculateRs

SpecRs == InitRs /\ [][NextRs]_vars

ZeroBenchPrices == {0, 1, 2}
PositivePrices == {1, 2}

\* the positions at which a benchmark price is 0
ZeroPositions(bench) == {i \in 1..Len(bench) : bench[i] = 0}

\* calculate_rs on every pair of aligned price series of equal length, at
\* most MaxPriceLen, whose benchmark price is 0 at exactly one position
InitRsZero ==
    /\ \E m \in Spans : calc = RRGCalculator(10, m)
    /\ \E n \in 1..MaxPriceLen :
          /\ stock_df \in [1..n -> PositivePrices]
          /\ benchmark_df \in {b \in [1..n -> ZeroBenchPrices] :
                                  Cardinality(ZeroPositions(b)) = 1}
    /\ ser = NoSeries
    /\ processed = NoSeries
    /\ rs_ratio = NoSeries
    /\ rs_momentum = NoSeries
    /\ rs_value = NoValue
    /\ momentum_value = NoValue
    /\ quadrant = NoQuadrant
    /\ pc = "start"
    /\ RestIdle

NextRsZero == CalculateRs

SpecRsZero == InitRsZero /\ [][NextRsZero]_vars

ConstPrices == {3, 5, 10}

\* calculate_rs and then calculate_momentum of its result, on a constant
\* instrument price and a constant benchmark price over at most MaxConstLen
\* dates
Init ==
    /\ \E k \in Shifts, m \in Spans : calc = RRGCalculator(k, m)
    /\ \E n \in 0..MaxConstLen, p \in ConstPrices, b \in ConstPrices :
          /\ stock_df = [i \in 1..n |-> p]
          /\ benchmark_df = [i \in 1..n |-> b]
    /\ ser = NoSeries
    /\ processed = NoSeries
    /\ rs_ratio = NoSeries
    /\ rs_momentum = NoSeries
    /\ rs_value = NoValue
    /\ momentum_value = NoValue
    /\ quadrant = NoQuadrant
    /\ pc = "start"
    /\ RestIdle

Next == CalculateRs \/ CalculateMomentum

Spec == Init /\ [][Next]_vars

RatioVals == {NaN, F(0), F(100), F(200)}

\* calculate_momentum on every ratio series of at most MaxRatioLen values
InitMom ==
    /\ \E k \in Shifts, m \in Spans : calc = RRGCalculator(k, m)
    /\ rs_ratio \in UNION {[1..n -> RatioVals] : n \in 0..MaxRatioLen}
    /\ ser = NoSeries
    /\ processed = NoSeries
    /\ stock_df = NoSeries
    /\ benchmark_df = NoSeries
    /\ rs_momentum = NoSeries
    /\ rs_value = NoValue
    /\ momentum_value = NoValue
    /\ quadrant = NoQuadrant
    /\ pc = "ratio_given"
    /\ RestIdle

NextMom == CalculateMomentum

SpecMom == InitMom /\ [][NextMom]_vars

QuadVals == {NaN, NegInf, PosInf, F(0), F(99), Rat(999999, 10000), F(100),
             Rat(1000001, 10000), F(101), F(200)}

\* get_quadrant on every pair of these values
InitQuad ==
    /\ calc = RRGCalculator(10, 14)
    /\ rs_value \in QuadVals
    /\ momentum_value \in QuadVals
    /\ ser = NoSeries
    /\ processed = NoSeries
    /\ stock_df = NoSeries
    /\ benchmark_df = NoSeries
    /\ rs_ratio = NoSeries
    /\ rs_momentum = NoSeries
    /\ quadrant = NoQuadrant
    /\ pc = "start"
    /\ RestIdle

NextQuad == GetQuadrant

SpecQuad == InitQuad /\ [][NextQuad]_vars

\* the loop body of generate_chart from process_series on, for an instrument
\* whose price history item_close was fetched: whether the instrument is
\* skipped, and if it is not, the two aligned series and the two results
chart_item(self, state, benchmark_close, item_close) ==
    LET item_closes         == process_series(item_close)
        benchmark_processed == process_series(benchmark_close)
        common_dates        == intersection(IndexOf(item_closes),
                                            IndexOf(benchmark_processed))
        window              == Get(state, "window", 14)
        roc_period          == Get(state, "roc_period", 20)
        item_aligned        == loc_labels(item_closes, common_dates)
        benchmark_aligned   == loc_labels(benchmark_processed, common_dates)
        rs_series           == calculate_rs(self, ValuesOf(item_aligned),
                                            ValuesOf(benchmark_aligned))
        momentum_series     == calculate_momentum(self, rs_series)
    IN  IF Len(common_dates) < window + roc_period
          THEN [skipped |-> TRUE, passed |-> NotCalled, result |-> NotStored,
                all_dates |-> {}]
          ELSE [skipped |-> FALSE,
                passed |-> [called |-> TRUE, item |-> item_aligned,
                            benchmark |-> benchmark_aligned],
                result |-> IF Len(rs_series) > 0 /\ Len(momentum_series) > 0
                             THEN [stored |-> TRUE, rs_series |-> rs_series,
                                   momentum_series |-> momentum_series]
                             ELSE NotStored,
                all_dates |-> {common_dates[i] : i \in 1..Len(common_dates)}]

\* the loop body of generate_chart for the instrument all_selected[item_idx]:
\* got is what get_token and get_stock_data give for it
GenerateChartItem ==
    /\ item_idx <= Len(all_selected)
    /\ \E got \in ItemOutcomes :
          LET symbol == all_selected[item_idx]
          IN  /\ item_df' = [item_df EXCEPT ![symbol] = got]
              /\ IF got.kind # "data" \/ Len(got.Close) = 0
                    THEN UNCHANGED <<aligned, items_data, session_state>>
                    ELSE \E done \in {chart_item(calc, session_state,
                                                 benchmark_closes, got.Close)} :
                           /\ aligned' = [aligned EXCEPT ![symbol] = done.passed]
                           /\ items_data' = [items_data EXCEPT ![symbol] = done.result]
                           /\ session_state' =
                                 [session_state EXCEPT !.available_dates =
                                     IF done.result.stored
                                       THEN session_state.available_dates
                                              \cup done.all_dates
                                       ELSE session_state.available_dates]
    /\ item_idx' = item_idx + 1
    /\ UNCHANGED <<calc, engineVars, calls, loaderVars, catalogVars, searchVars,
                   appVars, benchmark_closes, all_selected>>

\* the settings of the two sliders, (ema_roc_span, roc_shift)
SliderSettings == {<<5, 5>>, <<14, 10>>, <<5, 30>>, <<5, 52>>}

\* generate_chart up to its loop: the calculator built from the session
\* state, a benchmark history of MaxHistory dates that may lack the date
\* MaxHole, and one or two selected instruments
InitChart ==
    /\ \E mk \in SliderSettings :
          session_state = [ema_roc_span |-> mk[1], roc_shift |-> mk[2],
                           available_dates |-> {}]
    /\ calc = NewCalculator(Get(session_state, "window", 14),
                            Get(session_state, "roc_period", 20),
                            14,
                            Get(session_state, "roc_shift", 10),
                            Get(session_state, "ema_roc_span", 14))
    /\ \E hole \in {0, MaxHole} : benchmark_closes = BenchmarkCloses(hole)
    /\ all_selected \in {<<"A">>, <<"A", "B">>}
    /\ item_idx = 1
    /\ item_df = [sym \in Symbols |-> NotFetched]
    /\ aligned = [sym \in Symbols |-> NotCalled]
    /\ items_data = [sym \in Symbols |-> NotStored]
    /\ calls = 0
    /\ LoaderIdle
    /\ CatalogIdle
    /\ SearchIdle
    /\ AppIdle
    /\ EngineIdle

NextChart == GenerateChartItem

SpecChart == InitChart /\ [][NextChart]_vars

\* a result of the calculator as generate_chart stores it: a series on the
\* dates of the aligned series it was computed from
Labelled(dates, vals) == [i \in 1..Len(vals) |-> [date |-> dates[i], val |-> vals[i]]]
rs_series_of(sym) ==
    Labelled(IndexOf(aligned[sym].item), items_data[sym].rs_series)
momentum_series_of(sym) ==
    Labelled(IndexOf(aligned[sym].item), items_data[sym].momentum_series)

\* series[mask] with mask = [d <= cutoff_ts for d in series.index]
upto(series, cutoff_ts) == SelectSeq(series, LAMBDA e : e.date <= cutoff_ts)

\* the loop body of create_rrg_chart for one entry of items_data: the tail
\* and the current point it draws, if it draws the symbol
NotPlotted ==
    [plotted |-> FALSE, rs_tail |-> <<>>, momentum_tail |-> <<>>,
     current_rs |-> NaN, current_momentum |-> NaN]
plot_item(rs_all, momentum_all, tail_count, cutoff_date) ==
    LET rs_series       == IF cutoff_date # NoCutoff THEN upto(rs_all, cutoff_date)
                           ELSE rs_all
        momentum_series == IF cutoff_date # NoCutoff
                             THEN upto(momentum_all, cutoff_date)
                             ELSE momentum_all
    IN  IF Len(rs_series) = 0 \/ Len(momentum_series) = 0 THEN NotPlotted
        ELSE IF Len(rs_series) < tail_count \/ Len(momentum_series) < tail_count
          THEN NotPlotted
        ELSE [plotted |-> TRUE,
              rs_tail |-> ValuesOf(iloc_last(rs_series, tail_count)),
              momentum_tail |-> ValuesOf(iloc_last(momentum_series, tail_count)),
              current_rs |-> rs_series[Len(rs_series)].val,
              current_momentum |-> momentum_series[Len(momentum_series)].val]

\* create_rrg_chart(items_data, None, calculator, tail_count, colors_map,
\* cutoff_date): the traces of the symbols in items_data
create_rrg_chart(tail_count, cutoff_date) ==
    [sym \in {x \in Symbols : items_data[x].stored} |->
        plot_item(rs_series_of(sym), momentum_series_of(sym), tail_count,
                  cutoff_date)]

\* the days the slider reaches back from the latest date
max_days(timeframe) ==
    IF timeframe = "daily" THEN 180
    ELSE IF timeframe = "weekly" THEN 365
    ELSE 2190

\* the dates offered by the time-period slider: those of the first entry of
\* items_data with a non-empty ratio series, not more than max_days before
\* the latest of them
filtered_dates ==
    LET shown == SelectSeq(all_selected,
                           LAMBDA x : items_data[x].stored
                                      /\ Len(items_data[x].rs_series) > 0)
        available_dates == IF Len(shown) = 0 THEN <<>>
                           ELSE IndexOf(rs_series_of(shown[1]))
        timeframe == Get(session_state, "timeframe", "daily")
    IN  IF Len(available_dates) = 0 THEN {}
        ELSE {available_dates[i] : i \in
                {j \in 1..Len(available_dates) :
                    available_dates[j] >= available_dates[Len(available_dates)]
                                            - max_days(timeframe)}}

\* the rows of the current-values table
RECURSIVE current_values(_)
current_values(syms) ==
    IF Len(syms) = 0 THEN <<>>
    ELSE LET rest   == current_values(SubSeq(syms, 1, Len(syms) - 1))
             symbol == syms[Len(syms)]
             rs_series       == items_data[symbol].rs_series
             momentum_series == items_data[symbol].momentum_series
         IN  IF ~items_data[symbol].stored THEN rest
             ELSE IF Len(rs_series) = 0 \/ Len(momentum_series) = 0 THEN rest
             ELSE Append(rest,
                    [Symbol |-> symbol,
                     rs |-> rs_series[Len(rs_series)],
                     momentum |-> momentum_series[Len(momentum_series)],
                     Quadrant |-> get_quadrant(rs_series[Len(rs_series)],
                                     momentum_series[Len(momentum_series)])])

TailCounts == {2, 8, 10}

\* a rerun of main after generate_chart: the chart is drawn with the tail
\* count of the sidebar and the cutoff date selected on the slider (none
\* when the slider is not shown)
CreateRrgChart ==
    /\ item_idx > Len(all_selected)
    /\ ~fig.drawn
    /\ \E tail_count \in TailCounts, cutoff_date \in filtered_dates \cup {NoCutoff} :
          /\ cutoff_date = NoCutoff => filtered_dates = {}
          /\ fig' = [drawn |-> TRUE, tail_count |-> tail_count,
                     cutoff_date |-> cutoff_date,
                     traces |-> create_rrg_chart(tail_count, cutoff_date)]
    /\ UNCHANGED <<calc, engineVars, calls, chartVars, loaderVars, catalogVars,
                   searchVars, tokenVars, mainVars, initVars, genVars, selVars,
                   data_rows>>

\* the tab "Current RRG Values"
CurrentValues ==
    /\ item_idx > Len(all_selected)
    /\ ~data_rows.shown
    /\ data_rows' = [shown |-> TRUE, rows |-> current_values(all_selected)]
    /\ UNCHANGED <<calc, engineVars, calls, chartVars, loaderVars, catalogVars,
                   searchVars, tokenVars, mainVars, initVars, genVars, selVars,
                   fig>>

InitPlot == InitChart /\ all_selected = <<"A">>

NextPlot == GenerateChartItem \/ CreateRrgChart \/ CurrentValues

SpecPlot == InitPlot /\ [][NextPlot]_vars


\* the arguments of one call on the calculator: a series for process_series,
\* two price series for calculate_rs (whose result goes to
\* calculate_momentum), or two values for get_quadrant
NoArgs == [ser |-> NoSeries, stock_df |-> NoSeries, benchmark_df |-> NoSeries,
           rs_value |-> NoValue, momentum_value |-> NoValue]

EngineCalls ==
    {[NoArgs EXCEPT !.ser = s] :
        s \in {<<>>,
               <<[date |-> 2, val |-> 1], [date |-> 1, val |-> 2]>>,
               <<[date |-> 1, val |-> 1], [date |-> 1, val |-> 2]>>}}
    \cup UNION {{[NoArgs EXCEPT !.stock_df = s, !.benchmark_df = [i \in 1..n |-> 1]] :
                   s \in [1..n -> PositivePrices]} : n \in 1..MaxArgLen}
    \cup {[NoArgs EXCEPT !.rs_value = v[1], !.momentum_value = v[2]] :
             v \in {<<F(99), F(101)>>, <<F(100), F(100)>>, <<NaN, F(101)>>}}

\* the values given for the deprecated parameters window, period, ema_span
DeprecatedValues == {<<14, 52, 14>>, <<2, 3, 1>>}

\* the caller turns to another call on the same calculator, with arguments
\* of its own; what the earlier call returned is dropped
NewCall ==
    /\ pc # "start"
    /\ calls < MaxCalls
    /\ calls' = calls + 1
    /\ \E call \in EngineCalls :
          /\ ser' = call.ser
          /\ stock_df' = call.stock_df
          /\ benchmark_df' = call.benchmark_df
          /\ rs_value' = call.rs_value
          /\ momentum_value' = call.momentum_value
    /\ processed' = NoSeries
    /\ rs_ratio' = NoSeries
    /\ rs_momentum' = NoSeries
    /\ quadrant' = NoQuadrant
    /\ pc' = "start"
    /\ UNCHANGED <<calc, chartVars, loaderVars, catalogVars, searchVars, appVars>>

\* one calculator, built with any values of its five parameters, and the
\* calls made on it one after the other
InitEngine ==
    /\ \E d \in DeprecatedValues, k \in Shifts, m \in Spans :
          calc = NewCalculator(d[1], d[2], d[3], k, m)
    /\ \E call \in EngineCalls :
          /\ ser = call.ser
          /\ stock_df = call.stock_df
          /\ benchmark_df = call.benchmark_df
          /\ rs_value = call.rs_value
          /\ momentum_value = call.momentum_value
    /\ processed = NoSeries
    /\ rs_ratio = NoSeries
    /\ rs_momentum = NoSeries
    /\ quadrant = NoQuadrant
    /\ pc = "start"
    /\ RestIdle

NextEngine ==
    \/ ProcessSeries
    \/ ProcessSeriesAgain
    \/ CalculateRs
    \/ CalculateMomentum
    \/ GetQuadrant
    \/ NewCall

SpecEngine == InitEngine /\ [][NextEngine]_vars

\* loader.get(symbol, token): response is what the price API answers
LoaderGet ==
    /\ ~get_result.returned
    /\ \E response \in Responses :
          /\ api_response' = response
          /\ get_result' = loader_get(loader, token, response, today)
    /\ UNCHANGED <<calc, engineVars, calls, chartVars, catalogVars, searchVars,
                   appVars, loader, token, today>>

\* a daily loader of any period up to MaxPeriod, and a call of get with or
\* without a token
InitLoader ==
    /\ \E period \in 1..MaxPeriod :
          loader = [tf |-> "daily", period |-> period, closed |-> FALSE]
    /\ token \in {NoToken, "99926000"}
    /\ api_response = NoResponse
    /\ get_result = NotReturned
    /\ today = 0
    /\ calc = RRGCalculator(10, 14)
    /\ EngineIdle
    /\ calls = 0
    /\ ChartIdle
    /\ CatalogIdle
    /\ SearchIdle
    /\ AppIdle

NextLoader == LoaderGet

SpecLoader == InitLoader /\ [][NextLoader]_vars

MaxDays == 12

\* the daily candles of n consecutive trading days from the day start, on a
\* calendar with or without trading at weekends, the close being the day
RECURSIVE TradingDays(_, _, _)
TradingDays(start, n, weekends) ==
    IF n = 0 THEN <<>>
    ELSE IF ~weekends /\ weekday(start) > 4 THEN TradingDays(start + 1, n, weekends)
    ELSE <<[date |-> start, val |-> F(start)]>>
           \o TradingDays(start + 1, n - 1, weekends)

\* AngelOneLoader.get of a weekly loader
LoaderGetWeekly ==
    /\ ~get_result.returned
    /\ get_result' = loader_get(loader, token, api_response, today)
    /\ UNCHANGED <<calc, engineVars, calls, chartVars, catalogVars, searchVars,
                   appVars, loader, token, api_response, today>>

\* a weekly loader, the candles of up to MaxDays trading days, and a call on
\* the last of these days or on the day after
InitWeekly ==
    /\ \E period \in 1..MaxPeriod :
          loader = [tf |-> "weekly", period |-> period, closed |-> FALSE]
    /\ token = "99926000"
    /\ \E start \in 0..6, n \in 1..MaxDays, weekends \in BOOLEAN :
          api_response = [kind |-> "data", data |-> TradingDays(start, n, weekends)]
    /\ \E late \in 0..1 :
          today = api_response.data[Len(api_response.data)].date + late
    /\ get_result = NotReturned
    /\ calc = RRGCalculator(10, 14)
    /\ EngineIdle
    /\ calls = 0
    /\ ChartIdle
    /\ CatalogIdle
    /\ SearchIdle
    /\ AppIdle

NextWeekly == LoaderGetWeekly

SpecWeekly == InitWeekly /\ [][NextWeekly]_vars

otherVars == <<calc, engineVars, calls, chartVars, loaderVars, searchVars, appVars>>

InitCatalog ==
    /\ CatalogIdle
    /\ calc = RRGCalculator(10, 14)
    /\ EngineIdle
    /\ calls = 0
    /\ ChartIdle
    /\ LoaderIdle
    /\ SearchIdle
    /\ AppIdle

\* the calls of one thread, one after the other
NextCatalog ==
    \/ \E mod \in Modules : Call("main", mod) /\ UNCHANGED otherVars
    \/ Check("main") /\ UNCHANGED otherVars
    \/ Request("main") /\ UNCHANGED otherVars
    \/ Assign("main") /\ UNCHANGED otherVars
    \/ Return("main") /\ UNCHANGED otherVars
    \/ Clear /\ UNCHANGED otherVars

SpecCatalog == InitCatalog /\ [][NextCatalog]_vars

\* the calls of the threads, interleaved
NextThreads ==
    \/ \E t \in Threads, mod \in Modules : Call(t, mod) /\ UNCHANGED otherVars
    \/ \E t \in Threads : Check(t) /\ UNCHANGED otherVars
    \/ \E t \in Threads : Request(t) /\ UNCHANGED otherVars
    \/ \E t \in Threads : Assign(t) /\ UNCHANGED otherVars
    \/ \E t \in Threads : Return(t) /\ UNCHANGED otherVars
    \/ Clear /\ UNCHANGED otherVars

SpecThreads == InitCatalog /\ [][NextThreads]_vars

\* the outcomes of one call of fetch_scrip_master of scrip_master_search by a
\* single thread: the cached catalog, or a request that fails or is cached
fetch_scrip_master(c, ev) ==
    IF c["scrip_master_search"].loaded
      THEN {[ret |-> c["scrip_master_search"], cache |-> c, events |-> ev]}
      ELSE {[ret |-> NoCache, cache |-> c,
             events |-> Append(ev, [kind |-> "failed",
                                    mod |-> "scrip_master_search", data |-> <<>>])]}
           \cup
           {[ret |-> Cached(data),
             cache |-> [c EXCEPT !["scrip_master_search"] = Cached(data)],
             events |-> Append(ev, [kind |-> "downloaded",
                                    mod |-> "scrip_master_search", data |-> data])]
              : data \in CatalogVersions}

\* a call of search_indices, search_stocks or search_etfs: an empty query
\* returns before the catalog is fetched
Search ==
    /\ ~search_results.returned
    /\ IF Len(search_call.query) = 0
         THEN /\ search_results' = [returned |-> TRUE, list |-> <<>>]
              /\ UNCHANGED <<cache, events>>
         ELSE \E fetched \in fetch_scrip_master(cache, events) :
              \E found \in {search(search_call.fn, fetched.ret, search_call.query,
                                   search_call.exchange, search_call.limit)} :
                 /\ search_results' = [returned |-> TRUE, list |-> found]
                 /\ cache' = fetched.cache
                 /\ events' = fetched.events
    /\ UNCHANGED <<calc, engineVars, calls, chartVars, loaderVars, appVars, thread,
                   search_call>>

MaxCatalog == 2
MaxLimit   == 2

CatalogItems == {IndexAB, IndexB, StockA, StockB, EtfA, BseIndex}
Catalogs == UNION {[1..n -> CatalogItems] : n \in 0..MaxCatalog}

\* "", " ", "a", "B", "ab ", "-EQ", "z", "etf"
Queries == {<<>>, <<32>>, <<97>>, <<66>>, <<97, 98, 32>>, <<45, 69, 81>>, <<122>>,
            <<101, 116, 102>>}

InitSearch ==
    /\ cache \in {[mod \in Modules |->
                      IF mod = "scrip_master_search" THEN c ELSE NoCache]
                    : c \in {NoCache} \cup {Cached(data) : data \in Catalogs}}
    /\ thread = [t \in Threads |-> Outside]
    /\ events = <<>>
    /\ search_call \in [fn : {"search_indices", "search_stocks", "search_etfs"},
                        query : Queries, exchange : {"NSE", "BSE"},
                        limit : 0..MaxLimit]
    /\ search_results = NotSearched
    /\ calc = RRGCalculator(10, 14)
    /\ EngineIdle
    /\ calls = 0
    /\ ChartIdle
    /\ LoaderIdle
    /\ AppIdle

NextSearch == Search

SpecSearch == InitSearch /\ [][NextSearch]_vars

-----------------------------------------------------------------------------
(* The token lookup (src/src/token_fetcher.py) *)

\* str.lower() and str.title() on ASCII
lower(s) == [i \in 1..Len(s) |-> IF s[i] \in 65..90 THEN s[i] + 32 ELSE s[i]]

iscased(c) == c \in (65..90) \cup (97..122)

title(s) ==
    [i \in 1..Len(s) |->
        IF i > 1 /\ iscased(s[i - 1])
          THEN (IF s[i] \in 65..90 THEN s[i] + 32 ELSE s[i])
          ELSE (IF s[i] \in 97..122 THEN s[i] - 32 ELSE s[i])]

NIFTY == <<78, 73, 70, 84, 89>>    \* "NIFTY"
SPACE == <<32>>                    \* " "

\* BENCHMARK_TOKENS, as pairs of symbol and token
BenchmarkPairs ==
    {
     \* "Nifty 50"
     <<<<78, 105, 102, 116, 121, 32, 53, 48>>, "99926000">>,
     \* "Nifty Bank"
     <<<<78, 105, 102, 116, 121, 32, 66, 97, 110, 107>>, "99926009">>,
     \* "Nifty IT"
     <<<<78, 105, 102, 116, 121, 32, 73, 84>>, "99926008">>,
     \* "Nifty Pharma"
     <<<<78, 105, 102, 116, 121, 32, 80, 104, 97, 114, 109, 97>>, "99926023">>,
     \* "Nifty Auto"
     <<<<78, 105, 102, 116, 121, 32, 65, 117, 116, 111>>, "99926029">>,
     \* "Nifty FMCG"
     <<<<78, 105, 102, 116, 121, 32, 70, 77, 67, 71>>, "99926021">>,
     \* "Nifty Energy"
     <<<<78, 105, 102, 116, 121, 32, 69, 110, 101, 114, 103, 121>>, "99926020">>,
     \* "Nifty Metal"
     <<<<78, 105, 102, 116, 121, 32, 77, 101, 116, 97, 108>>, "99926030">>,
     \* "NIFTY50-EQ"
     <<<<78, 73, 70, 84, 89, 53, 48, 45, 69, 81>>, "99926000">>,
     \* "NIFTYBANK-EQ"
     <<<<78, 73, 70, 84, 89, 66, 65, 78, 75, 45, 69, 81>>, "99926009">>,
     \* "NIFTYIT-EQ"
     <<<<78, 73, 70, 84, 89, 73, 84, 45, 69, 81>>, "99926008">>,
     \* "NIFTYPHARMA-EQ"
     <<<<78, 73, 70, 84, 89, 80, 72, 65, 82, 77, 65, 45, 69, 81>>, "99926023">>,
     \* "NIFTYAUTO-EQ"
     <<<<78, 73, 70, 84, 89, 65, 85, 84, 79, 45, 69, 81>>, "99926029">>,
     \* "NIFTYFMCG-EQ"
     <<<<78, 73, 70, 84, 89, 70, 77, 67, 71, 45, 69, 81>>, "99926021">>,
     \* "NIFTYENERGY-EQ"
     <<<<78, 73, 70, 84, 89, 69, 78, 69, 82, 71, 89, 45, 69, 81>>, "99926020">>,
     \* "NIFTYMETAL-EQ"
     <<<<78, 73, 70, 84, 89, 77, 69, 84, 65, 76, 45, 69, 81>>, "99926030">>,
     \* "NIFTY50"
     <<<<78, 73, 70, 84, 89, 53, 48>>, "99926000">>,
     \* "NIFTYBANK"
     <<<<78, 73, 70, 84, 89, 66, 65, 78, 75>>, "99926009">>,
     \* "NIFTYIT"
     <<<<78, 73, 70, 84, 89, 73, 84>>, "99926008">>,
     \* "NIFTYPHARMA"
     <<<<78, 73, 70, 84, 89, 80, 72, 65, 82, 77, 65>>, "99926023">>,
     \* "NIFTYAUTO"
     <<<<78, 73, 70, 84, 89, 65, 85, 84, 79>>, "99926029">>,
     \* "NIFTYFMCG"
     <<<<78, 73, 70, 84, 89, 70, 77, 67, 71>>, "99926021">>,
     \* "NIFTYENERGY"
     <<<<78, 73, 70, 84, 89, 69, 78, 69, 82, 71, 89>>, "99926020">>,
     \* "NIFTYMETAL"
     <<<<78, 73, 70, 84, 89, 77, 69, 84, 65, 76>>, "99926030">>
    }

BenchmarkSymbols == {pair[1] : pair \in BenchmarkPairs}

BENCHMARK_TOKENS ==
    [symbol \in BenchmarkSymbols |->
        (CHOOSE pair \in BenchmarkPairs : pair[1] = symbol)[2]]

\* for item in scrip_data: if <matches>: return str(item.get("token"))
first_token(scrip_data, matches) ==
    LET found == {i \in 1..Len(scrip_data) : matches[i]}
    IN  IF found = {} THEN NoToken
        ELSE scrip_data[CHOOSE i \in found : \A j \in found : i <= j].token

\* get_token_from_symbol after fetch_scrip_master gave the catalog scrip_data
lookup_token(scrip_data, symbol, exchange) ==
    LET on_exchange(i) == scrip_data[i].exch_seg = exchange
        all == 1..Len(scrip_data)
        exact == first_token(scrip_data,
                     [i \in all |-> scrip_data[i].symbol = symbol /\ on_exchange(i)])
        base_symbol == SubSeq(symbol, 1, Len(symbol) - 3)
        by_base == first_token(scrip_data,
                     [i \in all |-> scrip_data[i].symbol = base_symbol
                                      /\ on_exchange(i)])
        by_name == first_token(scrip_data,
                     [i \in all |-> scrip_data[i].name = base_symbol
                                      /\ on_exchange(i)])
        symbol_upper == upper(symbol)
        symbol_lower == lower(symbol)
        symbol_title == title(symbol)
        any_case == first_token(scrip_data,
                     [i \in all |->
                        /\ \/ symbol_upper = upper(scrip_data[i].name)
                           \/ symbol_upper = upper(scrip_data[i].symbol)
                           \/ symbol_lower = lower(scrip_data[i].name)
                           \/ symbol_lower = lower(scrip_data[i].symbol)
                           \/ symbol_title = scrip_data[i].name
                           \/ symbol_title = scrip_data[i].symbol
                           \/ symbol = scrip_data[i].name
                           \/ symbol = scrip_data[i].symbol
                        /\ on_exchange(i)])
        symbol_upper_clean == remove(remove(symbol_upper, EQ), SPACE)
        substring == first_token(scrip_data,
                     [i \in all |->
                        LET item_name   == remove(upper(scrip_data[i].name), SPACE)
                            item_symbol == remove(upper(scrip_data[i].symbol), SPACE)
                        IN  /\ \/ contains(item_name, symbol_upper_clean)
                               \/ contains(item_symbol, symbol_upper_clean)
                               \/ contains(symbol_upper_clean, item_name)
                               \/ contains(symbol_upper_clean, item_symbol)
                            /\ on_exchange(i)])
    IN  IF exact # NoToken THEN exact
        ELSE IF endswith(symbol, EQ) /\ by_base # NoToken THEN by_base
        ELSE IF endswith(symbol, EQ) /\ by_name # NoToken THEN by_name
        ELSE IF contains(symbol_upper, NIFTY) \/ contains(symbol, NIFTY)
             THEN (IF any_case # NoToken THEN any_case ELSE substring)
        ELSE NoToken

\* the outcomes of one call of fetch_scrip_master of token_fetcher by a
\* single thread
token_fetch_scrip_master(c, ev) ==
    IF c["token_fetcher"].loaded
      THEN {[ret |-> c["token_fetcher"], cache |-> c, events |-> ev]}
      ELSE {[ret |-> NoCache, cache |-> c,
             events |-> Append(ev, [kind |-> "failed", mod |-> "token_fetcher",
                                    data |-> <<>>])]}
           \cup
           {[ret |-> Cached(data),
             cache |-> [c EXCEPT !["token_fetcher"] = Cached(data)],
             events |-> Append(ev, [kind |-> "downloaded", mod |-> "token_fetcher",
                                    data |-> data])]
              : data \in CatalogVersions}

\* get_token_from_symbol(symbol, exchange): the hardcoded tokens are looked
\* up before the catalog is fetched
GetTokenFromSymbol ==
    /\ ~token_result.returned
    /\ IF token_call.symbol \in DOMAIN BENCHMARK_TOKENS
         THEN /\ token_result' = [returned |-> TRUE,
                                  token |-> BENCHMARK_TOKENS[token_call.symbol]]
              /\ UNCHANGED <<cache, events>>
         ELSE \E fetched \in token_fetch_scrip_master(cache, events) :
                 /\ token_result' =
                       [returned |-> TRUE,
                        token |-> IF ~fetched.ret.loaded THEN NoToken
                                  ELSE lookup_token(fetched.ret.data,
                                                    token_call.symbol,
                                                    token_call.exchange)]
                 /\ cache' = fetched.cache
                 /\ events' = fetched.events
    /\ UNCHANGED <<calc, engineVars, calls, chartVars, loaderVars, searchVars,
                   mainVars, initVars, genVars, plotVars, selVars, thread,
                   token_call>>

\* entries of the catalog under the symbol of a hardcoded benchmark
NiftyNse == [symbol |-> <<78, 105, 102, 116, 121, 32, 53, 48>>,   \* "Nifty 50"
             name |-> <<78, 73, 70, 84, 89>>,                     \* "NIFTY"
             token |-> "99926000", exch_seg |-> "NSE", instrumenttype |-> "AMXIDX"]
NiftyNew == [symbol |-> <<78, 105, 102, 116, 121, 32, 53, 48>>,   \* "Nifty 50"
             name |-> <<78, 73, 70, 84, 89>>,                     \* "NIFTY"
             token |-> "26000", exch_seg |-> "NSE", instrumenttype |-> "AMXIDX"]
NiftyBse == [symbol |-> <<78, 105, 102, 116, 121, 32, 53, 48>>,   \* "Nifty 50"
             name |-> <<78, 73, 70, 84, 89>>,                     \* "NIFTY"
             token |-> "1", exch_seg |-> "BSE", instrumenttype |-> "AMXIDX"]

TokenItems == {NiftyNse, NiftyNew, NiftyBse, StockA, IndexAB}
TokenCatalogs == UNION {[1..n -> TokenItems] : n \in 0..MaxCatalog}

\* "Nifty 50", "nifty 50", "NIFTY", "A-EQ", "AB-EQ", "Ab-EQ", "Z"
TokenSymbols == {<<78, 105, 102, 116, 121, 32, 53, 48>>,
                 <<110, 105, 102, 116, 121, 32, 53, 48>>,
                 <<78, 73, 70, 84, 89>>,
                 <<65, 45, 69, 81>>,
                 <<65, 66, 45, 69, 81>>,
                 <<65, 98, 45, 69, 81>>,
                 <<90>>}

InitToken ==
    /\ cache \in {[mod \in Modules |-> IF mod = "token_fetcher" THEN c ELSE NoCache]
                    : c \in {NoCache} \cup {Cached(data) : data \in TokenCatalogs}}
    /\ thread = [t \in Threads |-> Outside]
    /\ events = <<>>
    /\ token_call \in [symbol : TokenSymbols, exchange : {"NSE", "BSE"}]
    /\ token_result = NoTokenResult
    /\ MainIdle
    /\ InitIdle
    /\ GenIdle
    /\ PlotIdle
    /\ SelIdle
    /\ calc = RRGCalculator(10, 14)
    /\ EngineIdle
    /\ calls = 0
    /\ ChartIdle
    /\ LoaderIdle
    /\ SearchIdle

NextToken == GetTokenFromSymbol

SpecToken == InitToken /\ [][NextToken]_vars

-----------------------------------------------------------------------------
(* The API loader of the session (src/app.py, initialize_api_loader, and    *)
(* AngelOneLoader.__init__ / close)                                         *)

\* AngelOneLoader(config, tf, period) constructed: self.closed = False
NewLoader(tf, period) ==
    [tf |-> tf, period |-> period, closed |-> FALSE, close_called |-> FALSE]

\* AngelOneLoader.close(): terminateSession ends the session (terminated) or
\* raises, and then closed stays as it is
close(self, terminated) ==
    [self EXCEPT !.close_called = TRUE, !.closed = self.closed \/ terminated]

\* st.session_state.loader.close() when the loader is not None
close_if_any(ls, ref, terminated) ==
    IF ref = NoLoader THEN ls ELSE [ls EXCEPT ![ref] = close(ls[ref], terminated)]

\* what a construction attempt meets: the loader, or an exception
Constructed     == [raised |-> FALSE, message |-> <<>>]
Raised(message) == [raised |-> TRUE, message |-> message]

TIMEOUT     == <<116, 105, 109, 101, 111, 117, 116>>    \* "timeout"
CONNECTION  == <<99, 111, 110, 110, 101, 99, 116, 105, 111, 110>>    \* "connection"
MAX_RETRIES == <<109, 97, 120, 32, 114, 101, 116, 114, 105, 101, 115>>    \* "max retries"
CONNECTTIMEOUTERROR ==
    <<99, 111, 110, 110, 101, 99, 116, 116, 105, 109, 101, 111, 117, 116,
    101, 114, 114, 111, 114>>    \* "connecttimeouterror"

\* is_timeout of the exception e
is_timeout(message) ==
    LET error_str == lower(message)
    IN  \/ contains(error_str, TIMEOUT)
        \/ contains(error_str, CONNECTION)
        \/ contains(error_str, MAX_RETRIES)
        \/ contains(error_str, CONNECTTIMEOUTERROR)

max_retries == 3

\* a loop that starts another attempt after every exception
RECURSIVE retry_every_error(_, _)
retry_every_error(outcomes, attempt) ==
    IF attempt >= max_retries THEN [ok |-> FALSE, attempts |-> attempt]
    ELSE IF ~outcomes[attempt + 1].raised THEN [ok |-> TRUE, attempts |-> attempt + 1]
    ELSE IF attempt < max_retries - 1 THEN retry_every_error(outcomes, attempt + 1)
    ELSE [ok |-> FALSE, attempts |-> attempt + 1]

\* for attempt in range(max_retries): whether a loader is returned, and the
\* number of attempts made
RECURSIVE attempt_loop(_, _)
attempt_loop(outcomes, attempt) ==
    IF attempt >= max_retries THEN [ok |-> FALSE, attempts |-> attempt]
    ELSE IF ~outcomes[attempt + 1].raised THEN [ok |-> TRUE, attempts |-> attempt + 1]
    ELSE IF is_timeout(outcomes[attempt + 1].message) /\ attempt < max_retries - 1
         THEN attempt_loop(outcomes, attempt + 1)
    ELSE [ok |-> FALSE, attempts |-> attempt + 1]

\* initialize_api_loader() with the session loader ref: the loader returned
\* (NoLoader for None), the loader objects, and the attempts made
initialize_api_loader(ref, ls, tf, period, outcomes, terminated) ==
    LET closed == close_if_any(ls, ref, terminated)
        loop   == attempt_loop(outcomes, 0)
    IN  IF loop.ok
          THEN [loader |-> Len(ls) + 1, loaders |-> Append(closed, NewLoader(tf, period)),
                attempts |-> loop.attempts]
          ELSE [loader |-> NoLoader, loaders |-> closed, attempts |-> loop.attempts]

\* a call of initialize_api_loader()
InitializeApiLoader ==
    /\ ~init_result.returned
    /\ \E terminated \in BOOLEAN :
       \E done \in {initialize_api_loader(ui.loader, loaders, ui.timeframe, ui.period,
                                          init_call, terminated)} :
          /\ init_result' = [returned |-> TRUE, loader |-> done.loader,
                             attempts |-> done.attempts]
          /\ loaders' = done.loaders
    /\ UNCHANGED <<calc, engineVars, calls, chartVars, loaderVars, catalogVars,
                   searchVars, tokenVars, genVars, plotVars, selVars, ui, run,
                   init_call>>

\* str(e) of the exceptions of AngelOneLoader.__init__
TimeoutMessages ==
    {<<67, 111, 110, 110, 101, 99, 116, 105, 111, 110, 32, 84, 105, 109,
      101, 111, 117, 116>>,    \* "Connection Timeout"
     <<77, 97, 120, 32, 114, 101, 116, 114, 105, 101, 115, 32, 101, 120, 99,
      101, 101, 100, 101, 100>>}    \* "Max retries exceeded"

OtherMessages ==
    {<<77, 105, 115, 115, 105, 110, 103, 32, 114, 101, 113, 117, 105, 114,
      101, 100, 32, 65, 80, 73, 32, 99, 114, 101, 100, 101, 110, 116, 105,
      97, 108, 115, 32, 105, 110, 32, 99, 111, 110, 102, 105, 103>>,    \* "Missing required API credentials in config"
     <<70, 97, 105, 108, 101, 100, 32, 116, 111, 32, 108, 111, 103, 105,
      110, 32, 116, 111, 32, 65, 110, 103, 101, 108, 79, 110, 101, 32, 65,
      80, 73>>}    \* "Failed to login to AngelOne API"

ErrorMessages == TimeoutMessages \cup OtherMessages

Outcomes == {Constructed} \cup {Raised(message) : message \in ErrorMessages}

InitLoaderInit ==
    /\ init_call \in [1..max_retries -> Outcomes]
    /\ init_result = NotInitialized
    /\ \E ref \in {NoLoader, 1} :
          /\ ui = [FirstLoad EXCEPT !.loader = ref]
          /\ loaders = IF ref = NoLoader THEN <<>> ELSE <<NewLoader("weekly", 200)>>
    /\ run = NotRun
    /\ TokenIdle
    /\ GenIdle
    /\ PlotIdle
    /\ SelIdle
    /\ calc = RRGCalculator(10, 14)
    /\ EngineIdle
    /\ calls = 0
    /\ ChartIdle
    /\ LoaderIdle
    /\ CatalogIdle
    /\ SearchIdle

NextLoaderInit == InitializeApiLoader

SpecLoaderInit == InitLoaderInit /\ [][NextLoaderInit]_vars

-----------------------------------------------------------------------------
(* The runs of main() (src/app.py): settings, memoized chart, time slider   *)

\* chart_cache_key, cached_chart, cached_items_data = None
clear_chart_cache(state) ==
    [state EXCEPT !.chart_cache_key = NoKey, !.cached_chart = FALSE,
                  !.cached_items_data = FALSE]

\* the left pane: the widgets give the settings, and a change of timeframe
\* drops the loader
settings(state, input) ==
    LET chosen == [state EXCEPT !.timeframe = input.timeframe,
                                !.period = input.period]
    IN  IF chosen.previous_timeframe # chosen.timeframe
          THEN [chosen EXCEPT !.loader = NoLoader,
                              !.previous_timeframe = chosen.timeframe]
          ELSE chosen

\* initialize_default_items(): the defaults found in the catalog are
\* selected when nothing is selected
initialize_default_items(state, defaults) ==
    IF Len(state.selected) = 0 THEN [state EXCEPT !.selected = defaults] ELSE state

\* get_chart_cache_key()
get_chart_cache_key(state) ==
    <<"Index", state.selected, "NIFTY 50", state.timeframe, state.period,
      state.tail_count, 14, 20, 10, 14, state.cutoff_date>>

\* get_stock_data(st.session_state.loader, ...): the loader used, and the
\* settings at the time
fetch_through(state, ls) ==
    [loader |-> state.loader, closed |-> ls[state.loader].closed,
     tf |-> ls[state.loader].tf, period |-> ls[state.loader].period,
     timeframe |-> state.timeframe, current_period |-> state.period]

\* what generate_chart returns: a figure, items_data (the symbols stored, in
\* their order) and a calculator, with the session state, the loaders and the
\* fetches made
chart_of(state, ls, stored, fetches) ==
    [state |-> state, loaders |-> ls, items_data |-> stored, fetches |-> fetches,
     fig |-> TRUE, calculator |-> TRUE]

\* a loop that ends at the first item that is not stored
RECURSIVE item_loop_until_failure(_, _, _, _, _, _)
item_loop_until_failure(selected, outcome, fetch, i, stored, fetches) ==
    IF i > Len(selected) THEN [items_data |-> stored, fetches |-> fetches]
    ELSE IF outcome[selected[i]] = "no_token"
         THEN [items_data |-> stored, fetches |-> fetches]
    ELSE IF outcome[selected[i]] \in {"no_data", "short", "raises"}
         THEN [items_data |-> stored, fetches |-> Append(fetches, fetch)]
    ELSE item_loop_until_failure(selected, outcome, fetch, i + 1,
                                 Append(stored, selected[i]), Append(fetches, fetch))

\* for item_type, symbol, name, token in all_selected: an item without
\* token, without data, with too short a history, or whose calculation
\* raises is passed over; the others are stored
RECURSIVE item_loop(_, _, _, _, _, _)
item_loop(selected, outcome, fetch, i, stored, fetches) ==
    IF i > Len(selected) THEN [items_data |-> stored, fetches |-> fetches]
    ELSE IF outcome[selected[i]] = "no_token"
         THEN item_loop(selected, outcome, fetch, i + 1, stored, fetches)
    ELSE IF outcome[selected[i]] \in {"no_data", "short", "raises"}
         THEN item_loop(selected, outcome, fetch, i + 1, stored,
                        Append(fetches, fetch))
    ELSE item_loop(selected, outcome, fetch, i + 1, Append(stored, selected[i]),
                   Append(fetches, fetch))

\* generate_chart()
generate_chart(state, ls, env) ==
    IF Len(state.selected) = 0 THEN chart_of(state, ls, <<>>, <<>>)
    ELSE
      LET needs_reinit ==
              \/ state.loader = NoLoader
              \/ ls[state.loader].tf # state.timeframe
              \/ ls[state.loader].period # state.period
          closed == close_if_any(ls, state.loader, env.terminated)
          init   == initialize_api_loader(state.loader, closed, state.timeframe,
                                          state.period, env.outcomes, env.terminated)
      IN  IF needs_reinit /\ init.loader = NoLoader
            THEN chart_of(state, init.loaders, <<>>, <<>>)
          ELSE
            LET with_loader == IF needs_reinit
                                 THEN [state EXCEPT !.loader = init.loader]
                                 ELSE state
                objects == IF needs_reinit THEN init.loaders ELSE ls
                fetch   == fetch_through(with_loader, objects)
                items   == item_loop(state.selected, env.items, fetch, 1, <<>>,
                                     <<fetch>>)
            IN  IF ~env.benchmark_token
                  THEN chart_of(with_loader, objects, <<>>, <<>>)
                ELSE IF env.benchmark \in {"none", "raises"}
                  THEN chart_of(with_loader, objects, <<>>, <<fetch>>)
                ELSE chart_of(with_loader, objects, items.items_data, items.fetches)

MaxCutoff == 2

\* the Time Period slider: the index the widget gives
select_slider(state, input) ==
    IF input.slider # 0 THEN input.slider
    ELSE IF state.slider_index = 0 THEN MaxCutoff
    ELSE state.slider_index

\* one run of main()
main(state, ls, last, input, env) ==
    LET first     == IF ~state.is_initialized THEN clear_chart_cache(state) ELSE state
        left      == settings(first, input)
        prev_selected_count == Len(left.selected)
        defaults  == initialize_default_items(left, env.defaults)
        new_selected_count == Len(defaults.selected)
        items_just_initialized == new_selected_count > prev_selected_count
        middle    == IF items_just_initialized
                        /\ new_selected_count \notin defaults.initialization_keys
                       THEN [clear_chart_cache(defaults) EXCEPT
                               !.initialization_keys = @ \cup {new_selected_count}]
                       ELSE defaults
        current_cache_key == get_chart_cache_key(middle)
        is_first_load == ~middle.is_initialized
        has_items_but_no_chart ==
            new_selected_count > 0
              /\ (~middle.cached_chart \/ middle.chart_cache_key = NoKey)
        cache_keys_match ==
            middle.chart_cache_key = current_cache_key /\ middle.chart_cache_key # NoKey
        regenerate ==
            \/ ~cache_keys_match
            \/ ~middle.cached_chart
            \/ items_just_initialized
            \/ has_items_but_no_chart
            \/ (is_first_load /\ new_selected_count > 0)
        generated == generate_chart(middle, ls, env)
        charted   == IF regenerate
                       THEN [generated.state EXCEPT
                               !.cached_chart = TRUE,
                               !.cached_items_data = generated.items_data # <<>>,
                               !.chart_cache_key = current_cache_key,
                               !.is_initialized = TRUE]
                       ELSE middle
        shown     == IF regenerate THEN generated.items_data # <<>>
                     ELSE middle.cached_items_data
        selected_index == select_slider(charted, input)
        slid      == IF shown
                       THEN [charted EXCEPT !.slider_index = selected_index,
                                            !.cutoff_date = selected_index,
                                            !.chart_cache_key = NoKey,
                                            !.cached_chart = FALSE]
                       ELSE charted
    IN  [ui |-> slid,
         loaders |-> IF regenerate THEN generated.loaders ELSE ls,
         run |-> [n |-> last.n + 1, generated |-> regenerate,
                  current_cache_key |-> current_cache_key,
                  previous_cache_key |-> last.current_cache_key,
                  items_just_initialized |-> items_just_initialized,
                  had_data |-> state.cached_items_data,
                  fetches |-> IF regenerate THEN generated.fetches ELSE <<>>]]

MaxReruns == 3

\* what the user chooses before a run, and what the run meets
Timeframes == {"daily", "weekly"}
Periods    == {200, 210}
Inputs == [timeframe : Timeframes, period : Periods, slider : 0..MaxCutoff]
Environments ==
    [outcomes : {[j \in 1..max_retries |-> Constructed],
                 [j \in 1..max_retries |->
                     Raised(CHOOSE m \in OtherMessages : TRUE)]},
     terminated : BOOLEAN,
     benchmark_token : {TRUE},
     benchmark : {"data", "none"},
     items : {[symbol \in Symbols |-> "ok"], [symbol \in Symbols |-> "no_data"]},
     defaults : {<<>>, <<"A", "B">>}]

\* a run of main() after the user changed the widgets
Rerun ==
    /\ run.n < MaxReruns
    /\ \E input \in Inputs, env \in Environments :
       \E done \in {main(ui, loaders, run, input, env)} :
          /\ ui' = done.ui
          /\ loaders' = done.loaders
          /\ run' = done.run
    /\ UNCHANGED <<calc, engineVars, calls, chartVars, loaderVars, catalogVars,
                   searchVars, tokenVars, initVars, genVars, plotVars,
                   selVars>>

InitMain ==
    /\ MainIdle
    /\ InitIdle
    /\ TokenIdle
    /\ GenIdle
    /\ PlotIdle
    /\ SelIdle
    /\ calc = RRGCalculator(10, 14)
    /\ EngineIdle
    /\ calls = 0
    /\ ChartIdle
    /\ LoaderIdle
    /\ CatalogIdle
    /\ SearchIdle

NextMain == Rerun

SpecMain == InitMain /\ [][NextMain]_vars

\* a call of generate_chart()
GenerateChart ==
    /\ ~gen_result.returned
    /\ \E done \in {generate_chart(ui, loaders, gen_env)} :
          /\ gen_result' = [returned |-> TRUE, fig |-> done.fig,
                            calculator |-> done.calculator,
                            items_data |-> done.items_data]
          /\ ui' = done.state
          /\ loaders' = done.loaders
          /\ run' = [run EXCEPT !.generated = TRUE, !.fetches = done.fetches]
    /\ UNCHANGED <<calc, engineVars, calls, chartVars, loaderVars, catalogVars,
                   searchVars, tokenVars, initVars, plotVars, selVars,
                   gen_env>>

\* what becomes of an item in the loop, and what the whole call meets
ItemResults == {"no_token", "no_data", "short", "raises", "ok"}
GenEnvironments ==
    [outcomes : {[j \in 1..max_retries |-> Constructed],
                 [j \in 1..max_retries |->
                     Raised(CHOOSE m \in OtherMessages : TRUE)]},
     terminated : BOOLEAN,
     benchmark_token : BOOLEAN,
     benchmark : {"data", "none", "raises"},
     items : [Symbols -> ItemResults]]

\* the session loader before the call: none, one of the current settings
\* (open, or closed by an earlier call), or one of another timeframe
SessionLoaders ==
    {<<>>, <<NewLoader("weekly", 200)>>,
     <<close(NewLoader("weekly", 200), TRUE)>>, <<NewLoader("daily", 200)>>}

InitGenerate ==
    /\ gen_env \in GenEnvironments
    /\ gen_result = NotGenerated
    /\ loaders \in SessionLoaders
    /\ \E selected \in {<<>>, <<"A", "B">>} :
          ui = [FirstLoad EXCEPT !.selected = selected, !.loader = Len(loaders),
                                 !.previous_timeframe = "weekly"]
    /\ run = NotRun
    /\ TokenIdle
    /\ InitIdle
    /\ PlotIdle
    /\ SelIdle
    /\ calc = RRGCalculator(10, 14)
    /\ EngineIdle
    /\ calls = 0
    /\ ChartIdle
    /\ LoaderIdle
    /\ CatalogIdle
    /\ SearchIdle

NextGenerate == GenerateChart

SpecGenerate == InitGenerate /\ [][NextGenerate]_vars

-----------------------------------------------------------------------------
(* The series normalizer: claims C2, C3, C4 *)

Returned == pc \in {"process_series", "process_series_again"}

StrictlyIncreasing(s) == \A i \in 1..(Len(s) - 1) : s[i].date < s[i + 1].date
NoDuplicateDates(s)   == \A i, j \in 1..Len(s) : i # j => s[i].date # s[j].date
DateSet(s)            == {s[i].date : i \in 1..Len(s)}
FirstPos(s, d)        == CHOOSE i \in 1..Len(s) :
                            s[i].date = d /\ \A j \in 1..(i - 1) : s[j].date # d

\* C2: whatever series process_series is given (any order, repeated dates,
\* the empty series), the series it returns has a strictly increasing date
\* index without duplicates, and the empty series gives the empty series.
C2_Normalized ==
    Returned =>
        /\ StrictlyIncreasing(processed)
        /\ NoDuplicateDates(processed)
        /\ (Len(ser) = 0 => Len(processed) = 0)

\* an unsorted input with a repeated date has been normalized
C2_Witness ==
    /\ pc = "process_series"
    /\ has_duplicates(ser)
    /\ ~is_monotonic_increasing(ser)
    /\ Len(processed) = 2

\* C3: the returned series has exactly the dates of the input, and at each
\* date the value of the earliest input entry of that date.
C3_KeepFirst ==
    Returned =>
        /\ DateSet(processed) = DateSet(ser)
        /\ \A i \in 1..Len(processed) :
              processed[i].val = ser[FirstPos(ser, processed[i].date)].val

\* an unsorted input in which a date repeats with another value
C3_Witness ==
    /\ pc = "process_series"
    /\ ~is_monotonic_increasing(ser)
    /\ \E i, j \in 1..Len(ser) :
          i < j /\ ser[i].date = ser[j].date /\ ser[i].val # ser[j].val

\* C4: process_series applied to its own result returns that result, and an
\* input that is strictly increasing already is returned as it is.
C4_Idempotent ==
    /\ pc = "process_series_again" => processed = ser
    /\ (pc = "process_series" /\ StrictlyIncreasing(ser)) => processed = ser

\* the second application, after a first one that changed a descending input
C4_Witness ==
    /\ pc = "process_series_again"
    /\ Len(processed) = 3
    /\ \E s \in [1..3 -> Entries] :
          /\ s[1].date > s[2].date /\ s[2].date > s[3].date
          /\ process_series(s) = ser

-----------------------------------------------------------------------------
(* The classifier: claim C1 *)

Quadrants == {"Leading", "Weakening", "Improving", "Lagging"}

\* C1: get_quadrant returns one of the four quadrants for every pair, and on
\* every pair of numbers: Leading iff ratio > 100 and momentum > 100,
\* Weakening iff ratio > 100 and momentum <= 100, Improving iff
\* ratio <= 100 and momentum > 100, Lagging iff ratio <= 100 and
\* momentum <= 100; the point (100, 100) is Lagging.
C1_Quadrant ==
    pc = "get_quadrant" =>
        /\ quadrant \in Quadrants
        /\ (~IsNaN(rs_value) /\ ~IsNaN(momentum_value)) =>
              /\ quadrant = "Leading" <=>
                    (FGt(rs_value, F(100)) /\ FGt(momentum_value, F(100)))
              /\ quadrant = "Weakening" <=>
                    (FGt(rs_value, F(100)) /\ FLe(momentum_value, F(100)))
              /\ quadrant = "Improving" <=>
                    (FLe(rs_value, F(100)) /\ FGt(momentum_value, F(100)))
              /\ quadrant = "Lagging" <=>
                    (FLe(rs_value, F(100)) /\ FLe(momentum_value, F(100)))
        /\ (rs_value = F(100) /\ momentum_value = F(100)) => quadrant = "Lagging"

\* the centre point has been classified
C1_Witness ==
    /\ pc = "get_quadrant"
    /\ rs_value = F(100)
    /\ momentum_value = F(100)
    /\ quadrant = "Lagging"

-----------------------------------------------------------------------------
(* calculate_rs: claims C5, C6, C7 *)

m_of(self) == self.ema_roc_span
k_of(self) == self.roc_shift

\* the claim's recursion: E[0] = raw[0], E[t] = alpha raw[t] + (1 - alpha) E[t-1]
\* with alpha = 2 / (m + 1), positions counted from 1 here
RECURSIVE C5_E(_, _, _, _)
C5_E(stock, bench, t, m) ==
    LET raw == Rat(stock[t], bench[t])
    IN  IF t = 1 THEN raw
        ELSE FAdd(FMul(Rat(2, m + 1), raw),
                  FMul(Rat(m - 1, m + 1), C5_E(stock, bench, t - 1, m)))

RECURSIVE C5_Sum(_, _, _, _, _)
C5_Sum(stock, bench, from, to, m) ==
    IF from > to THEN F(0)
    ELSE FAdd(C5_Sum(stock, bench, from, to - 1, m), C5_E(stock, bench, to, m))

C5_Mean(stock, bench, t, m) ==
    FDiv(C5_Sum(stock, bench, t - m + 1, t, m), F(m))

\* C5: on aligned series of equal length with non-zero benchmark prices the
\* ratio is undefined at the first m-1 positions and, where the rolling mean
\* is not zero, is 100 * E[t] / mean(E[t-m+1 .. t]) at every later position.
C5_RatioFormula ==
    pc = "calculate_rs" =>
        /\ Len(rs_ratio) = Len(stock_df)
        /\ \A t \in 1..Len(rs_ratio) :
              /\ t <= m_of(calc) - 1 => IsNaN(rs_ratio[t])
              /\ (t >= m_of(calc)
                    /\ ~IsZero(C5_Mean(stock_df, benchmark_df, t, m_of(calc)))) =>
                    /\ IsFinite(rs_ratio[t])
                    /\ rs_ratio[t] =
                         FDiv(FMul(F(100), C5_E(stock_df, benchmark_df, t, m_of(calc))),
                              C5_Mean(stock_df, benchmark_df, t, m_of(calc)))

\* a ratio off 100 behind the warm-up, on prices that change
C5_Witness ==
    /\ pc = "calculate_rs"
    /\ m_of(calc) = 3
    /\ Len(rs_ratio) = 4
    /\ stock_df[1] # stock_df[2]
    /\ IsNaN(rs_ratio[2])
    /\ IsFinite(rs_ratio[4])
    /\ rs_ratio[4] # F(100)
    /\ rs_ratio[3] # rs_ratio[4]

\* C6: the series calculate_rs and calculate_momentum return hold no entry
\* at the warm-up positions: their length is the input's length less the
\* warm-up (m-1 positions of the rolling window, k positions of the lag).
C6_WarmupAbsent ==
    /\ pc = "calculate_rs" =>
          Len(rs_ratio) = Max(0, Len(stock_df) - (m_of(calc) - 1))
    /\ pc = "calculate_momentum" =>
          Len(rs_momentum) = Max(0, Len(rs_ratio) - k_of(calc))

ConstantPrices ==
    /\ Len(stock_df) >= 1
    /\ Len(benchmark_df) = Len(stock_df)
    /\ \A i \in 1..Len(stock_df) :
          /\ stock_df[i] = stock_df[1] /\ benchmark_df[i] = benchmark_df[1]
    /\ stock_df[1] > 0
    /\ benchmark_df[1] > 0

\* C7: with a constant instrument price and a constant benchmark price the
\* ratio is exactly 100 from index 2m-2 on and the momentum of that ratio is
\* exactly 100 from index 2m-2+k on (indices counted from 0).
C7_ConstantRatio ==
    (pc \in {"calculate_rs", "calculate_momentum"} /\ ConstantPrices) =>
        /\ \A t \in 1..Len(rs_ratio) :
              t - 1 >= 2 * m_of(calc) - 2 => rs_ratio[t] = F(100)
        /\ pc = "calculate_momentum" =>
              \A t \in 1..Len(rs_momentum) :
                  t - 1 >= 2 * m_of(calc) - 2 + k_of(calc) => rs_momentum[t] = F(100)

\* prices 10 and 5, m = 3, k = 2, and a position from index 2m-2+k on
C7_Witness ==
    /\ pc = "calculate_momentum"
    /\ ConstantPrices
    /\ stock_df[1] = 10 /\ benchmark_df[1] = 5
    /\ m_of(calc) = 3 /\ k_of(calc) = 2
    /\ Len(rs_momentum) >= 2 * 3 - 2 + 2 + 1
    /\ rs_momentum[Len(rs_momentum)] = F(100)

\* the benchmark series with the price p put at position t
WithPrice(bench, t, p) == [i \in 1..Len(bench) |-> IF i = t THEN p ELSE bench[i]]

\* C11: when the benchmark price is 0 at a single position t, every other
\* position of the ratio series that is finite when the benchmark price at t
\* is not zero is finite as well
C11_ZeroBenchmarkLocal ==
    pc = "calculate_rs" =>
        \A t \in ZeroPositions(benchmark_df), p \in PositivePrices :
            LET other == calculate_rs(calc, stock_df, WithPrice(benchmark_df, t, p))
            IN  \A i \in 1..Len(rs_ratio) :
                    (i # t /\ IsFinite(other[i])) => IsFinite(rs_ratio[i])

-----------------------------------------------------------------------------
(* calculate_momentum: claims C8, C9, C10 *)

\* the ratio series is the same finite value at every position a..b
ConstantOver(ratio, a, b) ==
    /\ IsFinite(ratio[a])
    /\ \A i \in a..b : ratio[i] = ratio[a]

Windows(ratio) == {w \in (1..Len(ratio)) \X (1..Len(ratio)) : w[1] <= w[2]}

\* C8 as stated: over every window of at least k consecutive positions on
\* which the ratio series is constant, the momentum is exactly 100 at every
\* position of the window, whatever the ratio was before the window.
C8_MomentumCentering ==
    pc = "calculate_momentum" =>
        \A w \in Windows(rs_ratio) :
            (w[2] - w[1] + 1 >= k_of(calc) /\ ConstantOver(rs_ratio, w[1], w[2])) =>
                \A t \in w[1]..w[2] : rs_momentum[t] = F(100)

\* C8 as amended: if the ratio series is constant and not zero over the
\* positions a..b, and every rate of change before position a+k is
\* undefined or 0 (as it is when no ratio before a is defined), the momentum
\* is exactly 100 at every position a+k..b.
C8_MomentumCenteringAmended ==
    pc = "calculate_momentum" =>
        \A w \in Windows(rs_ratio) :
            (/\ ConstantOver(rs_ratio, w[1], w[2])
             /\ ~IsZero(rs_ratio[w[1]])
             /\ \A j \in 1..Len(rs_ratio) :
                   j < w[1] + k_of(calc) =>
                       \/ IsNaN(roc_of(rs_ratio, k_of(calc))[j])
                       \/ IsZero(roc_of(rs_ratio, k_of(calc))[j])) =>
                \A t \in (w[1] + k_of(calc))..w[2] : rs_momentum[t] = F(100)

\* a ratio undefined at first and then constantly 200 for more than k
\* positions, with k = 2
C8_Witness ==
    /\ pc = "calculate_momentum"
    /\ k_of(calc) = 2
    /\ rs_ratio = <<NaN, F(200), F(200), F(200)>>
    /\ rs_momentum[4] = F(100)
    /\ IsNaN(rs_momentum[3])

\* the first position at which the rate of change is defined, 0 if none
FirstDefined(vals) ==
    IF \E i \in 1..Len(vals) : ~IsNaN(vals[i])
      THEN CHOOSE i \in 1..Len(vals) :
               ~IsNaN(vals[i]) /\ \A j \in 1..(i - 1) : IsNaN(vals[j])
      ELSE 0

\* C9: with p the first position at which the rate of change is defined,
\* the momentum is undefined at every position before p and is
\* 100 + 100 * roc[p] at p.
C9_SeededByFirstRoc ==
    pc = "calculate_momentum" =>
        LET roc == roc_of(rs_ratio, k_of(calc))
            p   == FirstDefined(roc)
        IN  /\ Len(rs_momentum) = Len(rs_ratio)
            /\ \A t \in 1..Len(rs_momentum) :
                  (p = 0 \/ t < p) => IsNaN(rs_momentum[t])
            /\ p # 0 => rs_momentum[p] = FAdd(F(100), FMul(F(100), roc[p]))

\* the first defined rate of change lies behind the k-lag (the lagged ratio
\* before it is undefined or 0) and is not 0
C9_Witness ==
    /\ pc = "calculate_momentum"
    /\ k_of(calc) = 1
    /\ rs_ratio = <<NaN, F(0), F(100), F(200)>>
    /\ FirstDefined(roc_of(rs_ratio, 1)) = 4
    /\ rs_momentum[4] = F(200)
    /\ IsNaN(rs_momentum[3])

\* C10: at every position t whose k-lagged ratio value is 0 the momentum is
\* a missing value, also when earlier rates of change are defined.
C10_ZeroLagMissing ==
    pc = "calculate_momentum" =>
        \A t \in 1..Len(rs_momentum) :
            (t > k_of(calc) /\ IsZero(rs_ratio[t - k_of(calc)])) =>
                IsNaN(rs_momentum[t])

-----------------------------------------------------------------------------
(* The history the two transforms need: claim C12 *)

\* the first position at which the momentum can be defined
MinPoints == m_of(calc) + k_of(calc)

AllMissing(vals) == \A i \in 1..Len(vals) : IsNaN(vals[i])

\* C12 as stated: from m + k or fewer aligned points calculate_momentum of
\* calculate_rs has no defined value
C12_MinHistory ==
    (pc = "calculate_momentum" /\ Len(stock_df) <= MinPoints)
        => AllMissing(rs_momentum)

\* C12 as amended: from fewer than m + k aligned points the momentum has no
\* defined value, and from m + k or more points of positive prices its
\* position m + k is the first defined one
C12_MinHistoryAmended ==
    pc = "calculate_momentum" =>
        /\ Len(rs_momentum) = Len(stock_df)
        /\ \A i \in 1..Len(rs_momentum) :
               i < MinPoints => IsNaN(rs_momentum[i])
        /\ Len(stock_df) >= MinPoints => IsFinite(rs_momentum[MinPoints])

\* m + k aligned points, and the last momentum value is the only defined one
C12_Witness ==
    /\ pc = "calculate_momentum"
    /\ Len(stock_df) = MinPoints
    /\ IsFinite(rs_momentum[MinPoints])
    /\ \A i \in 1..(MinPoints - 1) : IsNaN(rs_momentum[i])

-----------------------------------------------------------------------------
(* generate_chart: claims C13, C14 *)

\* the number of dates an instrument history has in common with the
\* benchmark history
CommonDates(sym) == DateSet(item_df[sym].Close) \cap DateSet(benchmark_closes)

\* C13: no instrument is put in items_data whose number of dates in common
\* with the benchmark is smaller than the m + k points the momentum needs to
\* have a defined value
C13_InsufficientHistorySkipped ==
    \A sym \in Symbols :
        items_data[sym].stored => Cardinality(CommonDates(sym)) >= MinPoints

\* C14: the two series given to calculate_rs for an instrument have the same
\* index, which is the ascending sequence of the dates that the instrument
\* history and the benchmark history have in common; the price at each
\* position is the first one its own history holds for that date
C14_AlignedByDate ==
    \A sym \in Symbols :
        aligned[sym].called =>
            LET item      == aligned[sym].item
                benchmark == aligned[sym].benchmark
            IN  /\ IndexOf(item) = IndexOf(benchmark)
                /\ StrictlyIncreasing(item)
                /\ DateSet(item) = CommonDates(sym)
                /\ \A i \in 1..Len(item) :
                      /\ item[i] = item_df[sym].Close[
                                       FirstPos(item_df[sym].Close, item[i].date)]
                      /\ benchmark[i] = benchmark_closes[
                                       FirstPos(benchmark_closes, benchmark[i].date)]

\* an instrument given in descending order with a repeated date, whose
\* history starts after the benchmark's and holds a date the benchmark
\* lacks, has been aligned and given to calculate_rs
C14_Witness ==
    \E sym \in Symbols :
        /\ aligned[sym].called
        /\ item_df[sym].Close = ItemCloses(1, TRUE, TRUE)
        /\ benchmark_closes = BenchmarkCloses(MaxHole)
        /\ Len(aligned[sym].item) = MaxHistory - 2
        /\ aligned[sym].item[1].date = 2
        /\ aligned[sym].benchmark[1].date = 2

-----------------------------------------------------------------------------
(* The calculator as an object: claims C15, C16 *)

\* a calculator newly built with the parameters of self
Fresh(self) ==
    NewCalculator(self.window, self.period, self.ema_span, self.roc_shift,
                  self.ema_roc_span)

\* what a step of the calculator and its caller may do
CallStep ==
    /\ calc' = calc
    /\ pc' = "process_series" =>
          /\ ser' = ser
          /\ processed' = process_series(ser)
    /\ pc' = "process_series_again" =>
          /\ ser' = processed
          /\ processed' = process_series(processed)
    /\ pc' = "calculate_rs" =>
          /\ <<stock_df, benchmark_df>>' = <<stock_df, benchmark_df>>
          /\ rs_ratio' = calculate_rs(Fresh(calc), stock_df, benchmark_df)
    /\ pc' = "calculate_momentum" =>
          /\ rs_ratio' = rs_ratio
          /\ rs_momentum' = calculate_momentum(Fresh(calc), rs_ratio)
    /\ pc' = "get_quadrant" =>
          /\ <<rs_value, momentum_value>>' = <<rs_value, momentum_value>>
          /\ quadrant' = get_quadrant(rs_value, momentum_value)

\* C15: no call changes the parameters of the calculator or the series and
\* values it is given, and whatever calls were made before, a call returns
\* what a newly built calculator with the same parameters returns for the
\* same arguments
C15_Stateless == [][CallStep]_vars

\* calculate_momentum has returned a defined value on a calculator that
\* served two calls before
C15_Witness ==
    /\ calls = 2
    /\ pc = "calculate_momentum"
    /\ \E i \in 1..Len(rs_momentum) : IsFinite(rs_momentum[i])

\* the calculator self with d given for window, period and ema_span
WithDeprecated(self, d) ==
    NewCalculator(d[1], d[2], d[3], self.roc_shift, self.ema_roc_span)

\* C16: what calculate_rs and calculate_momentum return is what every
\* calculator with the same ema_roc_span and roc_shift returns, whatever its
\* window, period and ema_span
C16_DeprecatedIgnored ==
    \A d \in DeprecatedValues :
        /\ pc = "calculate_rs" =>
              rs_ratio = calculate_rs(WithDeprecated(calc, d), stock_df, benchmark_df)
        /\ pc = "calculate_momentum" =>
              rs_momentum = calculate_momentum(WithDeprecated(calc, d), rs_ratio)

\* a calculator whose window, period and ema_span are not the defaults has
\* returned a momentum series with a defined value
C16_Witness ==
    /\ pc = "calculate_momentum"
    /\ <<calc.window, calc.period, calc.ema_span>> = <<2, 3, 1>>
    /\ Len(rs_momentum) = 3
    /\ stock_df[1] # stock_df[2]
    /\ IsFinite(rs_momentum[3])

-----------------------------------------------------------------------------
(* The price source: claim C17 *)

\* C17: what get returns for a request that succeeded with an empty list of
\* candles differs from what it returns when the price API raised, gave
\* nothing or gave a message without data
C17_UnavailableDistinct ==
    (get_result.returned /\ token # NoToken /\ api_response = EmptySuccess)
        => \A response \in Unavailable :
               get_result # loader_get(loader, token, response, today)

-----------------------------------------------------------------------------
(* The catalog cache: claims C18, C19 *)

NoClear == \A i \in 1..Len(events) : events[i].kind # "cleared"

\* the requests that downloaded the catalog, all of them and those of one
\* module
Downloads       == {i \in 1..Len(events) : events[i].kind = "downloaded"}
DownloadsOf(mod) == {i \in Downloads : events[i].mod = mod}

\* C18: as long as the cache was not cleared, the catalog has been
\* downloaded by at most one request, and a call that returned the catalog
\* returned the data of that download
C18_DownloadedOnce ==
    NoClear =>
        /\ Cardinality(Downloads) <= 1
        /\ \A t \in Threads, i \in Downloads :
               (thread[t].pc = "done" /\ thread[t].ret.loaded)
                   => thread[t].ret.data = events[i].data

\* C19: when threads call the fetch_scrip_master of scrip_master_search
\* while its cache is empty, at most one request downloads the catalog,
\* and the callers that got the catalog got the same data
C19_ThreadSafe ==
    NoClear =>
        /\ Cardinality(DownloadsOf("scrip_master_search")) <= 1
        /\ \A t, u \in Threads :
               (/\ thread[t].pc = "done" /\ thread[t].mod = "scrip_master_search"
                /\ thread[u].pc = "done" /\ thread[u].mod = "scrip_master_search"
                /\ thread[t].ret.loaded /\ thread[u].ret.loaded)
                   => thread[t].ret = thread[u].ret


-----------------------------------------------------------------------------
(* The catalog search: claim C20 *)

\* the entries of the catalog the search read that d describes
Described(d) ==
    {i \in 1..Len(cache["scrip_master_search"].data) :
        descriptor(cache["scrip_master_search"].data[i]) = d}

\* the entry is of the kind the search function looks for
OfKind(fn, item, exchange) ==
    CASE fn = "search_indices" -> is_index(item, exchange)
      [] fn = "search_stocks"  -> is_stock(item, exchange)
      [] fn = "search_etfs"    -> is_etf(item, exchange)

\* C20: search_indices, search_stocks and search_etfs return at most limit
\* descriptors, each of the requested exchange and kind and holding the
\* query, without regard to case and surrounding blanks, in its symbol or its
\* name, and an empty or whitespace-only query returns the empty list.
C20_LimitIsMaximum ==
    search_results.returned =>
        LET list == search_results.list
            q    == strip(upper(search_call.query))
        IN  /\ Len(list) <= search_call.limit
            /\ \A i \in 1..Len(list) :
                   /\ list[i].exchange = search_call.exchange
                   /\ \E j \in Described(list[i]) :
                         OfKind(search_call.fn,
                                cache["scrip_master_search"].data[j],
                                search_call.exchange)
                   /\ contains(upper(list[i].symbol), q)
                         \/ contains(upper(list[i].name), q)
            /\ Len(q) = 0 => Len(list) = 0

-----------------------------------------------------------------------------
(* The token lookup: claim C21 *)

\* the entries of the catalog of token_fetcher with the symbol and the
\* exchange of the call
ExactEntries ==
    {i \in 1..Len(cache["token_fetcher"].data) :
        /\ cache["token_fetcher"].data[i].symbol = token_call.symbol
        /\ cache["token_fetcher"].data[i].exch_seg = token_call.exchange}

\* C21: the hardcoded benchmark tokens are a fallback: when the scrip master
\* is loaded and has an entry with the exact symbol and exchange of the
\* call, get_token_from_symbol returns the token of that entry, and the
\* BENCHMARK_TOKENS entry is returned only when there is no such entry.
C21_HardcodedIsFallback ==
    (token_result.returned /\ cache["token_fetcher"].loaded) =>
        IF ExactEntries # {}
          THEN \E i \in ExactEntries :
                  token_result.token = cache["token_fetcher"].data[i].token
          ELSE token_call.symbol \in DOMAIN BENCHMARK_TOKENS =>
                  token_result.token = BENCHMARK_TOKENS[token_call.symbol]

-----------------------------------------------------------------------------
(* The loader initialisation: claim C23 *)

\* the attempt met a timeout-like or connection-like error
TimeoutLike(outcome) == outcome.raised /\ outcome.message \in TimeoutMessages

\* C23: initialize_api_loader makes at most 3 attempts, starts another
\* attempt only after a timeout-like error and only while fewer than 3
\* attempts were made, returns the loader of the first successful attempt,
\* and returns None on a non-timeout error or after the third failure.
C23_RetriesOnlyTimeouts ==
    init_result.returned =>
        LET a == init_result.attempts
        IN  /\ a \in 1..3
            /\ \A j \in 1..(a - 1) : TimeoutLike(init_call[j])
            /\ init_result.loader # NoLoader <=> ~init_call[a].raised
            /\ init_result.loader # NoLoader =>
                  /\ init_result.loader = Len(loaders)
                  /\ ~loaders[init_result.loader].closed
            /\ init_call[a].raised => a = 3 \/ ~TimeoutLike(init_call[a])
            /\ (init_call[a].raised /\ TimeoutLike(init_call[a])) => a = 3

\* C23 witness: the third attempt succeeds after two timeouts
C23_Witness ==
    /\ init_result.returned
    /\ init_result.attempts = 3
    /\ init_result.loader # NoLoader
    /\ TimeoutLike(init_call[1]) /\ TimeoutLike(init_call[2])

-----------------------------------------------------------------------------
(* The runs of main(): claims C22, C24, C25 *)

\* C22: a rerun of main() whose cache key equals the key of the run before,
\* with a cached chart of at least one item with data and no default items
\* just initialised, re-uses the cached chart: generate_chart is not invoked
\* and no data is fetched.
C22_ChartMemoized ==
    (/\ run.n >= 2
     /\ run.had_data
     /\ run.current_cache_key = run.previous_cache_key
     /\ ~run.items_just_initialized)
        => (~run.generated /\ run.fetches = <<>>)

\* C24: every loader that the session state no longer refers to has had
\* close() called on it.
C24_ReplacedLoaderClosed ==
    \A i \in 1..Len(loaders) : i # ui.loader => loaders[i].close_called

\* C25: generate_chart fetches only through a loader whose session is open
\* and whose tf and period are the current timeframe and period.
C25_FetchThroughOpenLoader ==
    \A i \in 1..Len(run.fetches) :
        /\ ~run.fetches[i].closed
        /\ run.fetches[i].tf = run.fetches[i].timeframe
        /\ run.fetches[i].period = run.fetches[i].current_period

-----------------------------------------------------------------------------
(* The paths of generate_chart: claim C26 *)

\* after the call the session has no loader of the current settings
LoaderUnavailable ==
    \/ ui.loader = NoLoader
    \/ loaders[ui.loader].tf # ui.timeframe
    \/ loaders[ui.loader].period # ui.period

BenchmarkUnavailable == ~gen_env.benchmark_token \/ gen_env.benchmark # "data"

\* the selected items that have a token, data, enough history and a
\* calculation that does not raise
SoundItems == SelectSeq(ui.selected, LAMBDA symbol : gen_env.items[symbol] = "ok")

\* C26: generate_chart returns a figure and a calculator on every path; when
\* the loader or the benchmark is unavailable items_data is empty, and
\* otherwise items_data holds exactly the sound items, each failing item
\* being passed over without effect on the others.
C26_AlwaysReturnsChart ==
    gen_result.returned =>
        /\ gen_result.fig
        /\ gen_result.calculator
        /\ gen_result.items_data =
              IF LoaderUnavailable \/ BenchmarkUnavailable THEN <<>> ELSE SoundItems

\* C26 witness: the calculation of the first item raises and the second
\* item is stored
C26_Witness ==
    /\ gen_result.returned
    /\ gen_env.items["A"] = "raises"
    /\ gen_result.items_data = <<"B">>

-----------------------------------------------------------------------------
(* The selection lists of the session (src/app.py, initialize_default_items *)
(* and the sidebar of main)                                                 *)

MAJOR_INDICES ==
    <<
     \* "NIFTY Bank"
     <<78, 73, 70, 84, 89, 32, 66, 97, 110, 107>>,
     \* "NIFTY Financial Services"
     <<78, 73, 70, 84, 89, 32, 70, 105, 110, 97, 110, 99, 105, 97, 108, 32, 83, 101, 114, 118, 105, 99, 101, 115>>,
     \* "NIFTY IT"
     <<78, 73, 70, 84, 89, 32, 73, 84>>,
     \* "NIFTY FMCG"
     <<78, 73, 70, 84, 89, 32, 70, 77, 67, 71>>,
     \* "NIFTY Pharma"
     <<78, 73, 70, 84, 89, 32, 80, 104, 97, 114, 109, 97>>,
     \* "NIFTY Healthcare"
     <<78, 73, 70, 84, 89, 32, 72, 101, 97, 108, 116, 104, 99, 97, 114, 101>>,
     \* "NIFTY Auto"
     <<78, 73, 70, 84, 89, 32, 65, 117, 116, 111>>,
     \* "NIFTY Metal"
     <<78, 73, 70, 84, 89, 32, 77, 101, 116, 97, 108>>,
     \* "NIFTY Energy"
     <<78, 73, 70, 84, 89, 32, 69, 110, 101, 114, 103, 121>>,
     \* "NIFTY Realty"
     <<78, 73, 70, 84, 89, 32, 82, 101, 97, 108, 116, 121>>,
     \* "NIFTY PSU Bank"
     <<78, 73, 70, 84, 89, 32, 80, 83, 85, 32, 66, 97, 110, 107>>,
     \* "NIFTY Infrastructure"
     <<78, 73, 70, 84, 89, 32, 73, 110, 102, 114, 97, 115, 116, 114, 117, 99, 116, 117, 114, 101>>
    >>

DEFAULT_STOCKS ==
    <<
     \* "RELIANCE-EQ"
     <<82, 69, 76, 73, 65, 78, 67, 69, 45, 69, 81>>,
     \* "TCS-EQ"
     <<84, 67, 83, 45, 69, 81>>,
     \* "HDFCBANK-EQ"
     <<72, 68, 70, 67, 66, 65, 78, 75, 45, 69, 81>>,
     \* "INFY-EQ"
     <<73, 78, 70, 89, 45, 69, 81>>,
     \* "ICICIBANK-EQ"
     <<73, 67, 73, 67, 73, 66, 65, 78, 75, 45, 69, 81>>,
     \* "HINDUNILVR-EQ"
     <<72, 73, 78, 68, 85, 78, 73, 76, 86, 82, 45, 69, 81>>
    >>

DEFAULT_ETFS ==
    <<
     \* "BANKBEES-EQ"
     <<66, 65, 78, 75, 66, 69, 69, 83, 45, 69, 81>>,
     \* "GOLDBEES-EQ"
     <<71, 79, 76, 68, 66, 69, 69, 83, 45, 69, 81>>,
     \* "JUNIORBEES-EQ"
     <<74, 85, 78, 73, 79, 82, 66, 69, 69, 83, 45, 69, 81>>,
     \* "ITBEES-EQ"
     <<73, 84, 66, 69, 69, 83, 45, 69, 81>>
    >>

\* 'NIFTY 50', 'NIFTY', 'NIFTY50'
SkippedNames == {<<78, 73, 70, 84, 89, 32, 53, 48>>, NIFTY, <<78, 73, 70, 84, 89, 53, 48>>}

NoItem == [symbol |-> <<>>, name |-> <<>>, token |-> "", exchange |-> ""]

\* any(x['symbol'] == symbol for x in l)
has_symbol(l, symbol) == \E i \in 1..Len(l) : l[i].symbol = symbol

\* the name of an index matches a major index exactly, without its spaces,
\* or as complete words
name_matches(idx_name_upper, major_upper) ==
    \/ idx_name_upper = major_upper
    \/ remove(idx_name_upper, SPACE) = remove(major_upper, SPACE)
    \/ /\ contains(idx_name_upper, major_upper)
       /\ \/ startswith(idx_name_upper, major_upper \o SPACE)
          \/ endswith(idx_name_upper, SPACE \o major_upper)
          \/ contains(idx_name_upper, SPACE \o major_upper \o SPACE)

\* for major in MAJOR_INDICES, from the position j on: the first major index
\* that idx matches and that has no entry yet gets idx
RECURSIVE match_major(_, _, _)
match_major(idx, j, dict) ==
    IF j > Len(MAJOR_INDICES) THEN dict
    ELSE LET major_upper == upper(MAJOR_INDICES[j])
         IN  IF \/ upper(idx.symbol) = major_upper
                \/ name_matches(upper(idx.name), major_upper)
               THEN (IF dict[j] = NoItem THEN [dict EXCEPT ![j] = idx]
                     ELSE match_major(idx, j + 1, dict))
               ELSE match_major(idx, j + 1, dict)

\* major_indices_dict after the first i entries of all_indices, as the
\* entry of each position of MAJOR_INDICES
RECURSIVE major_indices_dict(_, _)
major_indices_dict(all_indices, i) ==
    IF i = 0 THEN [j \in 1..Len(MAJOR_INDICES) |-> NoItem]
    ELSE LET dict == major_indices_dict(all_indices, i - 1)
             idx  == all_indices[i]
         IN  IF upper(idx.symbol) \in SkippedNames \/ upper(idx.name) \in SkippedNames
               THEN dict
             ELSE IF \E j \in 1..Len(MAJOR_INDICES) : MAJOR_INDICES[j] = idx.symbol
               THEN [dict EXCEPT ![CHOOSE j \in 1..Len(MAJOR_INDICES) :
                                     MAJOR_INDICES[j] = idx.symbol] = idx]
             ELSE match_major(idx, 1, dict)

\* for major_symbol in MAJOR_INDICES: the entry is appended unless its
\* symbol is selected
RECURSIVE add_major_indices(_, _, _)
add_major_indices(dict, j, selected) ==
    IF j > Len(dict) THEN selected
    ELSE add_major_indices(dict, j + 1,
            IF dict[j] # NoItem /\ ~has_symbol(selected, dict[j].symbol)
              THEN Append(selected, dict[j])
              ELSE selected)

\* for default_symbol in defaults: the first entry of the listing with the
\* symbol is appended unless the symbol is selected
RECURSIVE add_defaults(_, _, _)
add_defaults(listing, defaults, selected) ==
    IF Len(defaults) = 0 THEN selected
    ELSE LET found == SelectSeq(listing, LAMBDA e : e.symbol = defaults[1])
         IN  add_defaults(listing, Tail(defaults),
                IF Len(found) > 0 /\ ~has_symbol(selected, found[1].symbol)
                  THEN Append(selected, found[1])
                  ELSE selected)

\* get_indices(), get_stocks(), get_etfs() when the catalog is scrip: the
\* empty list when it could not be fetched
listing_of(scrip, tab) ==
    IF ~scrip.loaded THEN <<>>
    ELSE CASE tab = "Index" -> get_indices(scrip.data, "NSE")
           [] tab = "Stock" -> get_stocks(scrip.data, "NSE")
           [] tab = "ETF"   -> get_etfs(scrip.data, "NSE")

\* initialize_default_items()
initialize_default_items_of(state, scrip) ==
    IF state.active_tab = "Index" /\ Len(state.selected_indices) = 0
      THEN LET all_indices == listing_of(scrip, "Index")
           IN  [state EXCEPT !.selected_indices =
                   add_major_indices(
                       major_indices_dict(all_indices, Len(all_indices)), 1, <<>>)]
    ELSE IF state.active_tab = "Stock" /\ Len(state.selected_stocks) = 0
      THEN [state EXCEPT !.selected_stocks =
               add_defaults(listing_of(scrip, "Stock"), DEFAULT_STOCKS, <<>>)]
    ELSE IF state.active_tab = "ETF" /\ Len(state.selected_etfs) = 0
      THEN [state EXCEPT !.selected_etfs =
               add_defaults(listing_of(scrip, "ETF"), DEFAULT_ETFS, <<>>)]
    ELSE state

\* the selection list of a tab, and the session state with another list
selected_of(state, tab) ==
    CASE tab = "Index" -> state.selected_indices
      [] tab = "Stock" -> state.selected_stocks
      [] tab = "ETF"   -> state.selected_etfs
with_selected(state, tab, l) ==
    CASE tab = "Index" -> [state EXCEPT !.selected_indices = l]
      [] tab = "Stock" -> [state EXCEPT !.selected_stocks = l]
      [] tab = "ETF"   -> [state EXCEPT !.selected_etfs = l]

\* the values of {f"{x['name']} ({x['symbol']})": x for x in l}: one entry
\* for each name and symbol, the last of l with them, in the order of the
\* first
RECURSIVE options(_)
options(l) ==
    IF Len(l) = 0 THEN <<>>
    ELSE LET rest == options(SubSeq(l, 1, Len(l) - 1))
             e    == l[Len(l)]
             same(x) == x.name = e.name /\ x.symbol = e.symbol
         IN  IF \E i \in 1..Len(rest) : same(rest[i])
               THEN [i \in 1..Len(rest) |-> IF same(rest[i]) THEN e ELSE rest[i]]
               ELSE Append(rest, e)

\* the sub-lists of l: what a multiselect over the options l can return
SubLists(l) ==
    {SelectSeq([i \in 1..Len(l) |-> <<i, l[i]>>], LAMBDA p : p[1] \in S) :
        S \in SUBSET (1..Len(l))}
Chosen(l) == {[i \in 1..Len(c) |-> c[i][2]] : c \in SubLists(l)}

\* the loop over the keys selected among search results: the first entry
\* whose symbol is not selected is appended and the script is rerun
RECURSIVE select_found(_, _)
select_found(selected, chosen) ==
    IF Len(chosen) = 0 THEN selected
    ELSE IF ~has_symbol(selected, chosen[1].symbol) THEN Append(selected, chosen[1])
    ELSE select_found(selected, Tail(chosen))

\* the update after the multiselect over the whole listing: the entries
\* whose symbol was not selected before the loop are appended, and the
\* entries whose symbol is not among the chosen are removed
multiselect_update(selected, chosen) ==
    LET current_selected_symbols == {selected[i].symbol : i \in 1..Len(selected)}
        new_selected_symbols     == {chosen[i].symbol : i \in 1..Len(chosen)}
        appended == selected \o SelectSeq(chosen,
                        LAMBDA x : x.symbol \notin current_selected_symbols)
    IN  SelectSeq(appended, LAMBDA x : x.symbol \in new_selected_symbols)

\* list.remove(x): the list without the first entry equal to x
list_remove(l, x) ==
    LET first == CHOOSE i \in 1..Len(l) : l[i] = x /\ \A j \in 1..(i - 1) : l[j] # x
    IN  SubSeq(l, 1, first - 1) \o SubSeq(l, first + 1, Len(l))

\* search_indices, search_stocks, search_etfs(query, limit=100)
search_of(scrip, tab, query) ==
    CASE tab = "Index" -> search_indices(scrip, query, "NSE", 100)
      [] tab = "Stock" -> search_stocks(scrip, query, "NSE", 100)
      [] tab = "ETF"   -> search_etfs(scrip, query, "NSE", 100)

\* a run of main starts with initialize_default_items()
Started == initialize_default_items_of(tabs, cache["scrip_master_search"])

selUnchanged ==
    UNCHANGED <<calc, engineVars, calls, chartVars, loaderVars, catalogVars,
                searchVars, tokenVars, mainVars, initVars, genVars, plotVars>>

\* a run of main without a change of the selection widgets
SelRerun ==
    /\ tabs' = Started
    /\ selUnchanged

\* a click on one of the buttons Index, Stock, ETF; the ETF button adds the
\* default ETFs when none is selected
TabButton ==
    /\ \E tab \in {"Index", "Stock", "ETF"} :
          LET state == [Started EXCEPT !.active_tab = tab]
          IN  tabs' = IF tab = "ETF" /\ Len(state.selected_etfs) = 0
                        THEN [state EXCEPT !.selected_etfs =
                                 add_defaults(
                                     listing_of(cache["scrip_master_search"], "ETF"),
                                     DEFAULT_ETFS, <<>>)]
                        ELSE state
    /\ selUnchanged

\* the queries "a" and "t"
SelQueries == {<<97>>, <<116>>}

\* a search query is entered and keys are selected among the results
SearchSelect ==
    /\ \E query \in SelQueries :
          LET state   == Started
              tab     == state.active_tab
              results == search_of(cache["scrip_master_search"], tab, query)
          IN  /\ Len(strip(query)) >= 1
              /\ Len(results) > 0
              /\ \E chosen \in Chosen(options(results)) :
                    tabs' = with_selected(state, tab,
                                select_found(selected_of(state, tab), chosen))
    /\ selUnchanged

\* without a search query, keys are selected and deselected in the
\* multiselect over all indices or all ETFs
MultiSelect ==
    /\ LET state == Started
           tab   == state.active_tab
       IN  /\ tab \in {"Index", "ETF"}
           /\ \E chosen \in Chosen(options(listing_of(cache["scrip_master_search"],
                                                       tab))) :
                 tabs' = with_selected(state, tab,
                             multiselect_update(selected_of(state, tab), chosen))
    /\ selUnchanged

\* a click on the remove button of an entry of the list of the active tab
RemoveButton ==
    /\ LET state == Started
           tab   == state.active_tab
       IN  \E i \in 1..Len(selected_of(state, tab)) :
              tabs' = with_selected(state, tab,
                          list_remove(selected_of(state, tab),
                                      selected_of(state, tab)[i]))
    /\ selUnchanged

SelIndexIt ==
    [symbol |-> <<78, 73, 70, 84, 89, 32, 73, 84>>,    \* "NIFTY IT"
     name |-> <<78, 73, 70, 84, 89, 32, 73, 84>>,    \* "NIFTY IT"
     token |-> "51", exch_seg |-> "NSE", instrumenttype |-> "AMXIDX"]
SelIndexItTri ==
    [symbol |-> <<78, 73, 70, 84, 89, 32, 73, 84>>,    \* "NIFTY IT"
     name |-> <<78, 73, 70, 84, 89, 32, 73, 84, 32, 84, 82, 73>>,    \* "NIFTY IT TRI"
     token |-> "52", exch_seg |-> "NSE", instrumenttype |-> "AMXIDX"]
SelStockTcs ==
    [symbol |-> <<84, 67, 83, 45, 69, 81>>,    \* "TCS-EQ"
     name |-> <<84, 67, 83>>,    \* "TCS"
     token |-> "61", exch_seg |-> "NSE", instrumenttype |-> "EQ"]
SelStockTata ==
    [symbol |-> <<84, 67, 83, 45, 69, 81>>,    \* "TCS-EQ"
     name |-> <<84, 65, 84, 65>>,    \* "TATA"
     token |-> "62", exch_seg |-> "NSE", instrumenttype |-> "EQ"]
SelEtfIt ==
    [symbol |-> <<73, 84, 66, 69, 69, 83, 45, 69, 81>>,    \* "ITBEES-EQ"
     name |-> <<73, 84, 66, 69, 69, 83>>,    \* "ITBEES"
     token |-> "71", exch_seg |-> "NSE", instrumenttype |-> "EQ"]
SelEtfItOld ==
    [symbol |-> <<73, 84, 66, 69, 69, 83, 45, 69, 81>>,    \* "ITBEES-EQ"
     name |-> <<73, 84, 32, 69, 84, 70>>,    \* "IT ETF"
     token |-> "72", exch_seg |-> "NSE", instrumenttype |-> "EQ"]

\* a catalog with one entry for each symbol, and one with two entries of a
\* symbol under different names
SelCatalogs ==
    {<<SelIndexIt, IndexAB, SelStockTcs, StockA, SelEtfIt, EtfA>>,
     <<SelIndexIt, SelIndexItTri, IndexAB, SelStockTcs, SelStockTata, StockA,
       SelEtfIt, SelEtfItOld, EtfA>>}

InitSelect ==
    /\ \E data \in SelCatalogs :
          cache = [mod \in Modules |->
                      IF mod = "scrip_master_search" THEN Cached(data) ELSE NoCache]
    /\ thread = [t \in Threads |-> Outside]
    /\ events = <<>>
    /\ tabs = NothingSelected
    /\ TokenIdle
    /\ MainIdle
    /\ InitIdle
    /\ GenIdle
    /\ PlotIdle
    /\ calc = RRGCalculator(10, 14)
    /\ EngineIdle
    /\ calls = 0
    /\ ChartIdle
    /\ LoaderIdle
    /\ SearchIdle

NextSelect == SelRerun \/ TabButton \/ SearchSelect \/ MultiSelect \/ RemoveButton

SpecSelect == InitSelect /\ [][NextSelect]_vars

-----------------------------------------------------------------------------
(* The weekly candles: claim C27 *)

\* the last trading day in the data of the response
LastTradingDay == api_response.data[Len(api_response.data)].date

\* C27: a weekly loader returns only complete weekly candles: no row is
\* labelled by a Friday after the last trading day in the data, and the
\* frame has at most period rows in ascending date order.
C27_CompleteWeeks ==
    (get_result.returned /\ ~get_result.none /\ loader.tf = "weekly") =>
        /\ \A i \in 1..Len(get_result.df) :
               /\ weekday(get_result.df[i].date) = 4
               /\ get_result.df[i].date <= LastTradingDay
        /\ Len(get_result.df) <= loader.period
        /\ \A i \in 1..(Len(get_result.df) - 1) :
               get_result.df[i].date < get_result.df[i + 1].date

-----------------------------------------------------------------------------
(* The points drawn and the rows of the table: claim C28 *)

\* the number of dates up to the cutoff on which both results are defined
DefinedUpTo(sym, cutoff_date) ==
    Cardinality({i \in 1..Len(items_data[sym].rs_series) :
                    /\ cutoff_date # NoCutoff =>
                          rs_series_of(sym)[i].date <= cutoff_date
                    /\ ~IsNaN(items_data[sym].rs_series[i])
                    /\ ~IsNaN(items_data[sym].momentum_series[i])})

\* C28: every tail point and current point drawn by create_rrg_chart and
\* every row of the current-values table is a defined ratio/momentum pair,
\* and a symbol with fewer than tail_count defined points up to the cutoff
\* is not plotted.
C28_DefinedPoints ==
    /\ fig.drawn =>
          \A sym \in DOMAIN fig.traces :
             LET t == fig.traces[sym]
             IN  /\ t.plotted =>
                       /\ \A i \in 1..Len(t.rs_tail) : ~IsNaN(t.rs_tail[i])
                       /\ \A i \in 1..Len(t.momentum_tail) :
                              ~IsNaN(t.momentum_tail[i])
                       /\ ~IsNaN(t.current_rs)
                       /\ ~IsNaN(t.current_momentum)
                 /\ DefinedUpTo(sym, fig.cutoff_date) < fig.tail_count =>
                       ~t.plotted
    /\ data_rows.shown =>
          \A i \in 1..Len(data_rows.rows) :
             ~IsNaN(data_rows.rows[i].rs) /\ ~IsNaN(data_rows.rows[i].momentum)

-----------------------------------------------------------------------------
(* Failed downloads and the cache: claim C29 *)

\* the step is a failed request of the thread t
FailedStep(t) ==
    /\ thread[t].pc = "request"
    /\ thread'[t].pc # "request"
    /\ Len(events') = Len(events) + 1
    /\ events'[Len(events')].kind = "failed"

\* the step is a call of clear_scrip_master_cache
ClearStep ==
    /\ Len(events') = Len(events) + 1
    /\ events'[Len(events')].kind = "cleared"

\* C29: a failed download leaves the cache as it is and fetch_scrip_master
\* returns None; a call that finds the cache empty attempts the download;
\* and a cache that holds data is emptied only by clear_scrip_master_cache,
\* which empties the cache of scrip_master_search.
C29_FailureKeepsCache ==
    [][/\ \A t \in Threads :
             FailedStep(t) =>
                 /\ cache' = cache
                 /\ thread'[t].pc = "done"
                 /\ thread'[t].ret = NoCache
       /\ \A t \in Threads :
             (thread[t].pc = "check" /\ thread'[t].pc # "check"
              /\ ~cache[thread[t].mod].loaded)
                 => thread'[t].pc = "request"
       /\ \A mod \in Modules :
             (cache[mod].loaded /\ cache'[mod] # cache[mod]) =>
                 \/ cache'[mod].loaded
                 \/ ClearStep /\ mod = "scrip_master_search"]_vars

\* a request failed after another request of the same module had downloaded
\* the catalog, and the cache of the module holds the downloaded catalog
C29_Witness ==
    \E i, j \in 1..Len(events) :
        /\ i < j
        /\ events[i].kind = "downloaded"
        /\ events[j].kind = "failed"
        /\ events[j].mod = events[i].mod
        /\ cache[events[i].mod] = Cached(events[i].data)
        /\ \E t \in Threads :
               /\ thread[t].pc = "done"
               /\ thread[t].mod = events[i].mod
               /\ thread[t].ret = NoCache

-----------------------------------------------------------------------------
(* The selection lists: claim C30 *)

\* no two entries of the list have the same symbol
DistinctSymbols(l) ==
    \A i, j \in 1..Len(l) : l[i].symbol = l[j].symbol => i = j

\* C30: after any sequence of default initialisation, search-and-select,
\* multiselect and remove-button operations no two entries of
\* selected_indices, of selected_stocks or of selected_etfs have the same
\* symbol, whatever the catalog holds.
C30_NoSymbolTwice ==
    /\ DistinctSymbols(tabs.selected_indices)
    /\ DistinctSymbols(tabs.selected_stocks)
    /\ DistinctSymbols(tabs.selected_etfs)

=========================================================================
